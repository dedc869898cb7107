------------------------------ MODULE Delivery ------------------------------
(***************************************************************************)
(* The delivery of frames: the sender inside the PHP workers               *)
(* (ext/orma_sender.c, called by orma_post_deactivate), the unix stream    *)
(* sockets of the kernel, and the goroutine of each connection in the      *)
(* daemon (ingest.Listener.handle).  Workers fork and die, the daemon      *)
(* stops or is killed and starts again.                                    *)
(*                                                                         *)
(* A frame travels as two chunks, its length word and its body: what       *)
(* handle reads with two io.ReadFull, and enough for a write to stop half  *)
(* way.  A counter of lost frames is modelled by the set of the frames     *)
(* counted, and so is the loss a frame declares.                           *)
(***************************************************************************)
EXTENDS Integers, Sequences, FiniteSets

CONSTANTS
  Procs,     \* worker processes; those outside Workers are born by a fork
  Workers,   \* the workers php-fpm starts
  Conns,     \* bound: connections alive at once
  MaxReq,    \* bound: requests of one process
  BufCap,    \* chunks a socket buffer holds
  Large,     \* frames longer than ingest.MaxFrameSize
  None       \* no connection, no process

Frames == Procs \X (1 .. MaxReq)

ASSUME ConstantsAssumption ==
  /\ Workers \subseteq Procs
  /\ MaxReq \in Nat
  /\ Large \subseteq Frames
  /\ BufCap \in Nat \ {0}
  /\ None \notin Conns \cup Procs \cup Frames

Chunk(f, part) == [frame |-> f, part |-> part]

VARIABLES
  state,      \* of a process: "unborn", "idle", "sending", "polling", "dead"
  req,        \* requests the process has ended
  fd,         \* ORMA_G(sock_fd)
  pid,        \* ORMA_G(sock_pid)
  attempt,    \* attempt of the loop in orma_sender_send
  off,        \* chunks of the frame already written in this attempt
  dropped,    \* ORMA_G(dropped): lost frames not yet declared
  declares,   \* the losses each frame carries
  holders,    \* processes with a descriptor of the client end
  server,     \* server end: "none", "backlog", "len", "body"
  want,       \* frame whose length word handle has read
  buf,        \* chunks written and not read
  daemon,     \* "up", "down", or "upgraded" to a version that refuses theirs
  losses,     \* frames any worker has dropped
  received,   \* frames decoded and counted by Listener.frames
  refused,    \* frames counted by Listener.rejected when the whole was there
  truncated,  \* those counted when only a part was
  discarded,  \* whole frames in a socket buffer the daemon never read
  buried      \* what died with a worker: its losses, the frame it was sending

procVars == <<state, req, fd, pid, attempt, off, dropped, declares>>
wireVars == <<holders, server, want, buf>>
fateVars == <<losses, received, refused, truncated, discarded, buried>>
vars == <<procVars, wireVars, daemon, fateVars>>

(* The frame a process is sending, or has sent last. *)
Current(p) == <<p, req[p]>>

(* The whole frames of a buffer. *)
WholeIn(b) == {b[i].frame : i \in {j \in DOMAIN b : b[j].part = "body"}}
Buffered == UNION {WholeIn(buf[c]) : c \in Conns}

Free(c) == holders[c] = {} /\ server[c] = "none"

-----------------------------------------------------------------------------
Init ==
  /\ state = [p \in Procs |-> IF p \in Workers THEN "idle" ELSE "unborn"]
  /\ req = [p \in Procs |-> 0]
  /\ fd = [p \in Procs |-> None]
  /\ pid = [p \in Procs |-> None]
  /\ attempt = [p \in Procs |-> 1]
  /\ off = [p \in Procs |-> 0]
  /\ dropped = [p \in Procs |-> {}]
  /\ declares = [f \in Frames |-> {}]
  /\ holders = [c \in Conns |-> {}]
  /\ server = [c \in Conns |-> "none"]
  /\ want = [c \in Conns |-> None]
  /\ buf = [c \in Conns |-> <<>>]
  /\ daemon = "up"
  /\ losses = {} /\ received = {} /\ refused = {}
  /\ truncated = {} /\ discarded = {} /\ buried = {}

-----------------------------------------------------------------------------
(* The sender. *)

KeepsDescriptor(p) == fd[p]

(* A descriptor inherited from a fork is forgotten, not closed. *)
OwnDescriptor(p) == IF pid[p] = p THEN fd[p] ELSE None

(* orma_post_deactivate: the frame is encoded with the losses so far, and  *)
(* handed to orma_sender_send, which first looks at whose descriptor it    *)
(* has.                                                                    *)
EndRequest(p) ==
  /\ state[p] = "idle"
  /\ req[p] < MaxReq
  /\ state' = [state EXCEPT ![p] = "sending"]
  /\ req' = [req EXCEPT ![p] = @ + 1]
  /\ declares' = [declares EXCEPT ![<<p, req[p] + 1>>] = dropped[p]]
  /\ fd' = [fd EXCEPT ![p] = OwnDescriptor(p)]
  /\ pid' = [pid EXCEPT ![p] = IF OwnDescriptor(p) = None THEN None ELSE @]
  /\ attempt' = [attempt EXCEPT ![p] = 1]
  /\ off' = [off EXCEPT ![p] = 0]
  /\ UNCHANGED <<dropped, wireVars, daemon, fateVars>>

CountsOneMore(p) == dropped[p] \cup {Current(p)}

(* orma_sender_drop, and the return to PHP. *)
Drop(p) ==
  /\ state' = [state EXCEPT ![p] = "idle"]
  /\ dropped' = [dropped EXCEPT ![p] = CountsOneMore(p)]
  /\ losses' = losses \cup {Current(p)}

(* orma_sender_close: the others who hold the connection keep it open. *)
CloseSocket(p) ==
  /\ holders' = [holders EXCEPT ![fd[p]] = @ \ {p}]
  /\ fd' = [fd EXCEPT ![p] = None]
  /\ pid' = [pid EXCEPT ![p] = None]

Listening == daemon # "down"

(* connect finds the daemon listening, and queues behind its accept. *)
Connect(p, c) ==
  /\ state[p] = "sending"
  /\ fd[p] = None
  /\ Listening
  /\ Free(c)
  /\ fd' = [fd EXCEPT ![p] = c]
  /\ pid' = [pid EXCEPT ![p] = p]
  /\ holders' = [holders EXCEPT ![c] = {p}]
  /\ server' = [server EXCEPT ![c] = "backlog"]
  /\ UNCHANGED <<state, req, attempt, off, dropped, declares,
                 want, buf, daemon, fateVars>>

(* No daemon, a full backlog, or no permission. *)
ConnectFails(p) ==
  /\ state[p] = "sending"
  /\ fd[p] = None
  /\ Drop(p)
  /\ UNCHANGED <<req, fd, pid, attempt, off, declares, wireVars, daemon,
                 received, refused, truncated, discarded, buried>>

CanWrite(p) == state[p] = "sending" /\ fd[p] # None

KeepAll(p) == dropped[p]

(* After a complete write the counters start again from zero. *)
AfterSuccess(p) == {}

(* send takes what the buffer has room for; the last chunk is the success. *)
WriteChunk(p) ==
  /\ CanWrite(p)
  /\ server[fd[p]] # "none"
  /\ Len(buf[fd[p]]) < BufCap
  /\ buf' = [buf EXCEPT ![fd[p]] =
               Append(@, Chunk(Current(p), IF off[p] = 0 THEN "len" ELSE "body"))]
  /\ off' = [off EXCEPT ![p] = 1]
  /\ state' = [state EXCEPT ![p] = IF off[p] = 1 THEN "idle" ELSE @]
  /\ dropped' = [dropped EXCEPT ![p] = IF off[p] = 1 THEN AfterSuccess(p) ELSE @]
  /\ UNCHANGED <<req, fd, pid, attempt, declares, holders, server, want,
                 daemon, fateVars>>

(* The buffer is full, EAGAIN: the worker polls for what is left of the    *)
(* budget.                                                                 *)
WouldBlock(p) ==
  /\ CanWrite(p)
  /\ server[fd[p]] # "none"
  /\ Len(buf[fd[p]]) = BufCap
  /\ state' = [state EXCEPT ![p] = "polling"]
  /\ UNCHANGED <<req, fd, pid, attempt, off, dropped, declares, wireVars,
                 daemon, fateVars>>

(* poll answers: there is room, or the other end is gone.                  *)
PollReady(p) ==
  /\ state[p] = "polling"
  /\ server[fd[p]] = "none" \/ Len(buf[fd[p]]) < BufCap
  /\ state' = [state EXCEPT ![p] = "sending"]
  /\ UNCHANGED <<req, fd, pid, attempt, off, dropped, declares, wireVars,
                 daemon, fateVars>>

WaitsForRoom(p) == state[p] = "polling" /\ server[fd[p]] = "none"

(* The budget may run out in any wait.                                     *)
BudgetExpires(p) == state[p] = "polling"

(* A timeout is not retried.                                               *)
WriteTimeout(p) ==
  /\ BudgetExpires(p)
  /\ Drop(p)
  /\ CloseSocket(p)
  /\ UNCHANGED <<req, attempt, off, declares, server, want, buf, daemon,
                 received, refused, truncated, discarded, buried>>

ResumesWhereItStopped(p) == off[p]

(* The second attempt writes the frame again from its beginning. *)
RestartAt(p) == 0

(* The daemon has closed its end: one more attempt, on a new connection. *)
WriteError(p) ==
  /\ CanWrite(p)
  /\ server[fd[p]] = "none"
  /\ CloseSocket(p)
  /\ IF attempt[p] = 1
     THEN /\ attempt' = [attempt EXCEPT ![p] = 2]
          /\ off' = [off EXCEPT ![p] = RestartAt(p)]
          /\ UNCHANGED <<state, dropped, losses>>
     ELSE Drop(p) /\ UNCHANGED <<attempt, off>>
  /\ UNCHANGED <<req, declares, server, want, buf, daemon,
                 received, refused, truncated, discarded, buried>>

-----------------------------------------------------------------------------
(* The processes. *)

(* pcntl_fork in the middle of a request copies the module globals.        *)
Fork(p, q) ==
  /\ state[p] = "idle"
  /\ state[q] = "unborn"
  /\ state' = [state EXCEPT ![q] = "idle"]
  /\ fd' = [fd EXCEPT ![q] = fd[p]]
  /\ pid' = [pid EXCEPT ![q] = pid[p]]
  /\ dropped' = [dropped EXCEPT ![q] = dropped[p]]
  /\ holders' = [c \in Conns |-> IF p \in holders[c] THEN holders[c] \cup {q} ELSE holders[c]]
  /\ UNCHANGED <<req, attempt, off, declares, server, want, buf, daemon, fateVars>>

InSend(p) == state[p] \in {"sending", "polling"}

(* A worker is recycled between two requests, or killed at any point: the  *)
(* kernel closes its descriptors, and the losses it had not declared and   *)
(* the frame it was sending go with it.                                    *)
Die(p) ==
  /\ state[p] \in {"idle", "sending", "polling"}
  /\ state' = [state EXCEPT ![p] = "dead"]
  /\ dropped' = [dropped EXCEPT ![p] = {}]
  /\ buried' = buried \cup dropped[p] \cup (IF InSend(p) THEN {Current(p)} ELSE {})
  /\ fd' = [fd EXCEPT ![p] = None]
  /\ pid' = [pid EXCEPT ![p] = None]
  /\ holders' = [c \in Conns |-> holders[c] \ {p}]
  /\ UNCHANGED <<req, attempt, off, declares, server, want, buf, daemon,
                 losses, received, refused, truncated, discarded>>

-----------------------------------------------------------------------------
(* The daemon. *)

Accept(c) ==
  /\ Listening
  /\ server[c] = "backlog"
  /\ server' = [server EXCEPT ![c] = "len"]
  /\ UNCHANGED <<procVars, holders, want, buf, daemon, fateVars>>

NextFrame(c) == Head(buf[c]).frame

RefusesLength(c) == NextFrame(c) \in Large

(* The length word, one the worker wrote: it is never too small.           *)
ReadLength(c) ==
  /\ server[c] = "len"
  /\ buf[c] # <<>>
  /\ ~RefusesLength(c)
  /\ server' = [server EXCEPT ![c] = "body"]
  /\ want' = [want EXCEPT ![c] = NextFrame(c)]
  /\ buf' = [buf EXCEPT ![c] = Tail(@)]
  /\ UNCHANGED <<procVars, holders, daemon, fateVars>>

(* A length over the limit closes the connection.  The worker may have     *)
(* written the whole frame, and others behind it, or may still be writing. *)
RefuseLength(c) ==
  /\ server[c] = "len"
  /\ buf[c] # <<>>
  /\ RefusesLength(c)
  /\ LET f == NextFrame(c)
         whole == WholeIn(buf[c])
     IN  /\ refused' = refused \cup (whole \cap {f})
         /\ truncated' = truncated \cup ({f} \ whole)
         /\ discarded' = discarded \cup (whole \ {f})
  /\ server' = [server EXCEPT ![c] = "none"]
  /\ buf' = [buf EXCEPT ![c] = <<>>]
  /\ UNCHANGED <<procVars, holders, want, daemon, losses, received, buried>>

(* The bytes after the length word are the body that goes with it, in a    *)
(* version the daemon speaks.                                              *)
Decodes(c) ==
  /\ Head(buf[c]) = Chunk(want[c], "body")
  /\ daemon # "upgraded"

(* A frame that does not decode closes the connection, and what was        *)
(* written behind it is never read.                                        *)
ReadBody(c) ==
  /\ server[c] = "body"
  /\ buf[c] # <<>>
  /\ want' = [want EXCEPT ![c] = None]
  /\ \/ /\ Decodes(c)
        /\ received' = received \cup {want[c]}
        /\ server' = [server EXCEPT ![c] = "len"]
        /\ buf' = [buf EXCEPT ![c] = Tail(@)]
        /\ UNCHANGED <<refused, discarded>>
     \/ /\ ~Decodes(c)
        /\ refused' = refused \cup {Head(buf[c]).frame}
        /\ server' = [server EXCEPT ![c] = "none"]
        /\ buf' = [buf EXCEPT ![c] = <<>>]
        /\ discarded' = discarded \cup WholeIn(Tail(buf[c]))
        /\ UNCHANGED received
  /\ UNCHANGED <<procVars, holders, daemon, losses, truncated, buried>>

(* End of file: clean between two frames, a truncated frame otherwise. *)
EndOfFile(c) ==
  /\ server[c] \in {"len", "body"}
  /\ holders[c] = {}
  /\ buf[c] = <<>>
  /\ truncated' = IF server[c] = "body" THEN truncated \cup {want[c]} ELSE truncated
  /\ server' = [server EXCEPT ![c] = "none"]
  /\ want' = [want EXCEPT ![c] = None]
  /\ UNCHANGED <<procVars, holders, buf, daemon, losses, received, refused,
                 discarded, buried>>

(* The process ends, by a signal or a crash: the kernel resets every       *)
(* connection and drops what had not been read.                            *)
DaemonEnds ==
  /\ Listening
  /\ daemon' = "down"
  /\ server' = [c \in Conns |-> "none"]
  /\ want' = [c \in Conns |-> None]
  /\ buf' = [c \in Conns |-> <<>>]
  /\ discarded' = discarded \cup Buffered
  /\ UNCHANGED <<procVars, holders, losses, received, refused, truncated, buried>>

(* It may start again in another version, under workers that keep theirs.  *)
DaemonStarts ==
  /\ daemon = "down"
  /\ daemon' \in {"up", "upgraded"}
  /\ UNCHANGED <<procVars, wireVars, fateVars>>

-----------------------------------------------------------------------------
Sender(p) ==
  \/ \E c \in Conns : Connect(p, c)
  \/ ConnectFails(p)
  \/ WriteChunk(p)
  \/ WouldBlock(p)
  \/ PollReady(p)
  \/ WriteTimeout(p)
  \/ WriteError(p)

Next ==
  \/ \E p \in Procs : EndRequest(p)
  \/ \E p \in Procs : Sender(p)
  \/ \E p, q \in Procs : Fork(p, q)
  \/ \E p \in Procs : Die(p)
  \/ \E c \in Conns : Accept(c) \/ ReadLength(c) \/ RefuseLength(c) \/ ReadBody(c) \/ EndOfFile(c)
  \/ DaemonEnds
  \/ DaemonStarts

Spec == Init /\ [][Next]_vars

(* A worker inside orma_sender_send runs; nothing is asked of the daemon,  *)
(* which may be stopped, or up and never reading.                          *)
FairSpec == Spec /\ \A p \in Procs : WF_vars(Sender(p))
-----------------------------------------------------------------------------
(* Properties. *)

(* What handle has still to read of a connection, from the length word it  *)
(* has in hand.                                                            *)
Stream(c) ==
  IF want[c] = None THEN buf[c] ELSE <<Chunk(want[c], "len")>> \o buf[c]

(* Framing: on every connection the bytes are whole frames of one process, *)
(* in the order of its requests, none of them twice; only the last may be  *)
(* unfinished.  It is what the check of sock_pid in orma_sender_send is    *)
(* for, and what the restart from the first byte after an error keeps.     *)
StreamsFramed ==
  \A c \in Conns :
    LET s == Stream(c)
    IN  \A i \in DOMAIN s :
          IF i % 2 = 0
          THEN s[i] = Chunk(s[i - 1].frame, "body")
          ELSE /\ s[i].part = "len"
               /\ i > 1 => /\ s[i].frame[1] = s[i - 1].frame[1]
                           /\ s[i].frame[2] > s[i - 1].frame[2]

(* Rejections: Listener.rejected counts a frame only when the daemon speaks *)
(* another version, or the frame is longer than MaxFrameSize, or its worker *)
(* has given it up half written.  No fork, retry or restart makes handle   *)
(* misread a stream.                                                       *)
RejectionsExplained ==
  [][/\ refused' \subseteq refused \cup Large \/ daemon = "upgraded"
     /\ truncated' \subseteq losses' \cup buried' \cup Large]_vars

(* Frames that left their worker as a success. *)
Sent == Buffered \cup received \cup refused \cup discarded

(* No loss is forgotten: a frame a worker drops is in its counters, or in  *)
(* a frame it delivered afterwards, or died with a worker; and nothing     *)
(* else is ever declared lost (orma_sender_drop, the reset after a         *)
(* success, and the copy a fork makes).                                    *)
NothingForgotten ==
  losses = (UNION {dropped[p] : p \in Procs})
             \cup (UNION {declares[f] : f \in Sent})
             \cup (buried \cap losses)

(* A worker declares each loss once: no two of its delivered frames carry  *)
(* the same loss, nor does one carry a loss that is still counted.  A      *)
(* forked child may repeat those of its parent.                            *)
LossDeclaredOnce ==
  \A f \in Sent :
    /\ declares[f] \cap dropped[f[1]] = {}
    /\ \A g \in Sent : f[1] = g[1] /\ f # g => declares[f] \cap declares[g] = {}

(* Losses are conserved: what the workers count, the frames declare and    *)
(* the dead took along is what was lost, and none is declared twice.       *)
LossesConserved == NothingForgotten /\ LossDeclaredOnce

(* The frames as a ledger: accepted when the request ends, settled once,   *)
(* as received by the daemon or as lost, whatever is retried, forked,      *)
(* killed or restarted: at most one delivery, and no loss of a frame that  *)
(* has been delivered.                                                     *)
L == INSTANCE Ledger WITH
       Txns <- Frames,
       pending <- {Current(p) : p \in {q \in Procs : InSend(q)}} \cup Buffered,
       persisted <- received,
       lost <- losses \cup refused \cup discarded \cup buried

LedgerSpec == L!Spec

(* The first rule of orma_sender.c: the worker always gets out of          *)
(* orma_sender_send, even when the daemon stops, or is up and reads no     *)
(* more.                                                                   *)
SendReturns == \A p \in Procs : InSend(p) ~> ~InSend(p)
=============================================================================
