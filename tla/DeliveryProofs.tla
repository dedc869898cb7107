---------------------------- MODULE DeliveryProofs ----------------------------
(***************************************************************************)
(* Theorems about Delivery, for every set of processes and of connections, *)
(* and every value of the bounds.                                          *)
(***************************************************************************)
EXTENDS Delivery, SequenceTheorems, TLAPS

-----------------------------------------------------------------------------
(* The inductive invariant. *)

Chunks == [frame : Frames, part : {"len", "body"}]

Typed ==
  /\ state \in [Procs -> {"unborn", "idle", "sending", "polling", "dead"}]
  /\ req \in [Procs -> 0 .. MaxReq]
  /\ fd \in [Procs -> Conns \cup {None}]
  /\ pid \in [Procs -> Procs \cup {None}]
  /\ attempt \in [Procs -> {1, 2}]
  /\ off \in [Procs -> {0, 1}]
  /\ dropped \in [Procs -> SUBSET Frames]
  /\ declares \in [Frames -> SUBSET Frames]
  /\ holders \in [Conns -> SUBSET Procs]
  /\ server \in [Conns -> {"none", "backlog", "len", "body"}]
  /\ want \in [Conns -> Frames \cup {None}]
  /\ buf \in [Conns -> Seq(Chunks)]
  /\ daemon \in {"up", "down", "upgraded"}
  /\ losses \subseteq Frames /\ received \subseteq Frames /\ refused \subseteq Frames
  /\ truncated \subseteq Frames /\ discarded \subseteq Frames /\ buried \subseteq Frames

(* Descriptors: a process that has one holds its connection, knows whose   *)
(* it is, and writes only on its own; all who share one agree on whose.    *)
Descriptors ==
  /\ \A p \in Procs :
       /\ fd[p] = None <=> pid[p] = None
       /\ fd[p] # None => p \in holders[fd[p]]
       /\ pid[p] # None => state[pid[p]] # "unborn"
       /\ state[p] = "unborn" => req[p] = 0
       /\ state[p] \in {"unborn", "dead"} => fd[p] = None
       /\ InSend(p) => fd[p] = None \/ pid[p] = p
       /\ InSend(p) => req[p] > 0
       /\ InSend(p) /\ fd[p] = None => off[p] = 0 /\ state[p] = "sending"
  /\ \A p, q \in Procs : fd[p] # None /\ fd[p] = fd[q] => pid[p] = pid[q]

(* The server end of a connection and what there is to read from it.       *)
Ends ==
  \A c \in Conns :
    /\ server[c] = "body" <=> want[c] # None
    /\ server[c] = "none" => buf[c] = <<>>

(* A stream of whole frames of one process, the last one maybe unfinished. *)
Framed(s) ==
  \A i \in 1 .. Len(s) :
    IF i % 2 = 0
    THEN s[i] = Chunk(s[i - 1].frame, "body")
    ELSE /\ s[i].part = "len"
         /\ i > 1 => /\ s[i].frame[1] = s[i - 1].frame[1]
                     /\ s[i].frame[2] > s[i - 1].frame[2]

Odd(s) == Len(s) % 2 = 1
Latest(s) == s[Len(s)].frame

(* What the process that writes a connection will write fits what is       *)
(* already there: the body of the last frame, or the length of a later one.*)
Continues(p, s) ==
  IF InSend(p) /\ off[p] = 1
  THEN Odd(s) /\ Latest(s) = Current(p)
  ELSE /\ ~Odd(s)
       /\ s # <<>> => /\ Latest(s)[1] = p
                      /\ Latest(s)[2] <= req[p]
                      /\ InSend(p) => Latest(s)[2] < req[p]

(* A frame that is unfinished is being written, or was given up.           *)
Writes(p, c) == InSend(p) /\ fd[p] = c /\ off[p] = 1

Streams ==
  \A c \in Conns :
    /\ Framed(Stream(c))
    /\ \A p \in Procs :
         fd[p] = c /\ pid[p] = p /\ server[c] # "none" => Continues(p, Stream(c))
    /\ Odd(Stream(c)) =>
         \/ Latest(Stream(c)) \in losses \cup buried
         \/ \E p \in Procs : Writes(p, c) /\ Latest(Stream(c)) = Current(p)

(* The fate of a frame: it has one only when its process has stopped       *)
(* sending it, and then only one.                                          *)
Over(f) == f[2] < req[f[1]] \/ (f[2] = req[f[1]] /\ ~InSend(f[1]))

GivenUp == losses \cup refused \cup discarded \cup buried

(* A buffer with no frame whole in it twice. *)
Distinct(b) ==
  \A i, j \in 1 .. Len(b) :
    b[i].part = "body" /\ b[j].part = "body" /\ b[i].frame = b[j].frame => i = j

Fates ==
  /\ \A f \in Buffered \cup received \cup GivenUp : Over(f)
  /\ Buffered \cap (received \cup GivenUp) = {}
  /\ received \cap GivenUp = {}
  /\ \A c \in Conns : Distinct(buf[c])
  /\ \A c, d \in Conns : c # d => WholeIn(buf[c]) \cap WholeIn(buf[d]) = {}

(* The counters of losses. *)
Counters ==
  /\ \A p \in Procs : dropped[p] \subseteq losses
  /\ \A p \in Procs : state[p] = "unborn" => dropped[p] = {}
  /\ \A f \in Frames : declares[f] \subseteq losses
  /\ \A p \in Procs : InSend(p) => declares[Current(p)] = dropped[p]
  /\ LossesConserved

IInv ==
  /\ Typed /\ Descriptors /\ Ends /\ Streams /\ Fates /\ Counters
  /\ truncated \subseteq losses \cup buried \cup Large

-----------------------------------------------------------------------------
(* Types. *)

LEMMA FrameType ==
  ASSUME NEW p \in Procs, NEW i \in 1 .. MaxReq
  PROVE  <<p, i>> \in Frames
BY DEF Frames

LEMMA CurrentType ==
  ASSUME Typed, NEW p \in Procs, req[p] > 0
  PROVE  Current(p) \in Frames
BY ConstantsAssumption, FrameType DEF Typed, Current

(* What is whole in a buffer are frames. *)
LEMMA WholeInType ==
  ASSUME NEW b \in Seq(Chunks)
  PROVE  WholeIn(b) \subseteq Frames
<1>1. \A i \in DOMAIN b : b[i] \in Chunks
  BY ElementOfSeq, LenProperties
<1>2. QED
  BY <1>1 DEF WholeIn, Chunks

LEMMA TypedInit == Init => Typed
<1>1. <<>> \in Seq(Chunks)
  BY EmptySeq
<1>2. QED
  BY <1>1, ConstantsAssumption DEF Init, Typed

LEMMA TypedEndRequest ==
  ASSUME Typed, NEW p \in Procs, EndRequest(p)
  PROVE  Typed'
<1>1. req[p] + 1 \in 1 .. MaxReq
  BY ConstantsAssumption DEF EndRequest, Typed
<1>2. declares' \in [Frames -> SUBSET Frames]
  BY DEF EndRequest, Typed
<1>3. req' \in [Procs -> 0 .. MaxReq]
  BY <1>1 DEF EndRequest, Typed
<1>4. state' \in [Procs -> {"unborn", "idle", "sending", "polling", "dead"}]
  BY DEF EndRequest, Typed
<1>5. /\ fd' \in [Procs -> Conns \cup {None}] /\ pid' \in [Procs -> Procs \cup {None}]
      /\ attempt' \in [Procs -> {1, 2}] /\ off' \in [Procs -> {0, 1}]
  BY DEF EndRequest, OwnDescriptor, Typed
<1>6. QED
  BY <1>2, <1>3, <1>4, <1>5 DEF EndRequest, Typed, wireVars, fateVars

LEMMA TypedSender ==
  ASSUME Typed, Descriptors, NEW p \in Procs, Sender(p)
  PROVE  Typed'
<1>0. InSend(p)
  BY DEF Sender, InSend, Connect, ConnectFails, WriteChunk, CanWrite, WouldBlock, PollReady,
         WriteTimeout, BudgetExpires, WriteError
<1>1. Current(p) \in Frames
  BY <1>0, CurrentType DEF Descriptors
<1>2. CASE \E c \in Conns : Connect(p, c)
  BY <1>2 DEF Connect, Typed, fateVars
<1>3. CASE ConnectFails(p)
  BY <1>1, <1>3 DEF ConnectFails, Drop, CountsOneMore, Typed, wireVars
<1>4. CASE WriteChunk(p)
  <2>1. /\ fd[p] \in Conns
        /\ Chunk(Current(p), IF off[p] = 0 THEN "len" ELSE "body") \in Chunks
    BY <1>1, <1>4 DEF WriteChunk, CanWrite, Typed, Chunk, Chunks
  <2>2. Append(buf[fd[p]], Chunk(Current(p), IF off[p] = 0 THEN "len" ELSE "body")) \in Seq(Chunks)
    BY <2>1, AppendProperties DEF Typed
  <2>3. buf' \in [Conns -> Seq(Chunks)]
    BY <1>4, <2>1, <2>2, Zenon DEF WriteChunk, Typed
  <2>4. QED
    BY <1>4, <2>3 DEF WriteChunk, AfterSuccess, Typed, fateVars
<1>5. CASE WouldBlock(p) \/ PollReady(p)
  BY <1>5 DEF WouldBlock, PollReady, Typed, wireVars, fateVars
<1>6. CASE WriteTimeout(p)
  BY <1>1, <1>6 DEF WriteTimeout, Drop, CountsOneMore, CloseSocket, Typed
<1>7. CASE WriteError(p)
  <2>1. CloseSocket(p) /\ UNCHANGED <<req, declares, server, want, buf, daemon,
                                      received, refused, truncated, discarded, buried>>
    BY <1>7 DEF WriteError
  <2>2. /\ fd' \in [Procs -> Conns \cup {None}] /\ pid' \in [Procs -> Procs \cup {None}]
        /\ holders' \in [Conns -> SUBSET Procs]
    BY <2>1 DEF CloseSocket, Typed
  <2>3. CASE attempt[p] = 1
    <3>1. /\ attempt' = [attempt EXCEPT ![p] = 2]
          /\ off' = [off EXCEPT ![p] = 0]
          /\ UNCHANGED <<state, dropped, losses>>
      BY <1>7, <2>3 DEF WriteError, RestartAt
    <3>2. attempt' \in [Procs -> {1, 2}]
      BY <3>1 DEF Typed
    <3>3. off' \in [Procs -> {0, 1}]
      BY <3>1 DEF Typed
    <3>4. QED
      BY <2>1, <2>2, <3>1, <3>2, <3>3 DEF Typed
  <2>4. CASE attempt[p] # 1
    <3>1. Drop(p) /\ UNCHANGED <<attempt, off>>
      BY <1>7, <2>4 DEF WriteError
    <3>2. dropped' \in [Procs -> SUBSET Frames] /\ losses' \subseteq Frames
      BY <1>1, <3>1 DEF Drop, CountsOneMore, Typed
    <3>3. state' \in [Procs -> {"unborn", "idle", "sending", "polling", "dead"}]
      BY <3>1 DEF Drop, Typed
    <3>4. QED
      BY <2>1, <2>2, <3>1, <3>2, <3>3 DEF Typed
  <2>5. QED
    BY <2>3, <2>4
<1>8. QED
  BY <1>2, <1>3, <1>4, <1>5, <1>6, <1>7 DEF Sender

LEMMA TypedProcess ==
  ASSUME Typed, Descriptors, NEW p \in Procs, NEW q \in Procs, Fork(p, q) \/ Die(p)
  PROVE  Typed'
<1>1. CASE Fork(p, q)
  <2>1. holders' \in [Conns -> SUBSET Procs]
    BY <1>1 DEF Fork, Typed
  <2>2. QED
    BY <1>1, <2>1 DEF Fork, Typed, fateVars
<1>2. CASE Die(p)
  <2>1. InSend(p) => Current(p) \in Frames
    BY CurrentType DEF Descriptors
  <2>2. buried' \subseteq Frames
    BY <1>2, <2>1 DEF Die, Typed
  <2>3. holders' \in [Conns -> SUBSET Procs]
    BY <1>2 DEF Die, Typed
  <2>4. QED
    BY <1>2, <2>2, <2>3 DEF Die, Typed
<1>3. QED
  BY <1>1, <1>2

(* What the daemon reads from. *)
LEMMA BufferHead ==
  ASSUME Typed, NEW c \in Conns, buf[c] # <<>>
  PROVE  /\ Head(buf[c]) \in Chunks
         /\ Head(buf[c]) = buf[c][1]
         /\ Tail(buf[c]) \in Seq(Chunks)
         /\ Len(buf[c]) \in Nat \ {0}
         /\ Len(Tail(buf[c])) = Len(buf[c]) - 1
         /\ \A i \in 1 .. Len(buf[c]) - 1 : Tail(buf[c])[i] = buf[c][i + 1]
<1>1. buf[c] \in Seq(Chunks)
  BY DEF Typed
<1>2. QED
  BY <1>1, HeadTailProperties, EmptySeq

(* The steps of the daemon, those of a connection and those of the process. *)
DaemonStep(c) ==
  \/ c \in Conns /\ (Accept(c) \/ ReadLength(c) \/ RefuseLength(c) \/ ReadBody(c) \/ EndOfFile(c))
  \/ DaemonEnds \/ DaemonStarts

LEMMA TypedDaemon ==
  ASSUME Typed, Ends, NEW c, DaemonStep(c)
  PROVE  Typed'
<1>1. CASE c \in Conns /\ Accept(c)
  BY <1>1 DEF Accept, Typed, procVars, fateVars
<1>2. CASE c \in Conns /\ ReadLength(c)
  <2>1. Head(buf[c]).frame \in Frames /\ Tail(buf[c]) \in Seq(Chunks)
    BY <1>2, BufferHead DEF ReadLength, NextFrame, Chunks
  <2>2. buf' \in [Conns -> Seq(Chunks)] /\ want' \in [Conns -> Frames \cup {None}]
    BY <1>2, <2>1 DEF ReadLength, NextFrame, Typed
  <2>3. QED
    BY <1>2, <2>2 DEF ReadLength, Typed, procVars, fateVars
<1>3. CASE c \in Conns /\ ReadBody(c)
  <2>1. /\ Head(buf[c]).frame \in Frames /\ Tail(buf[c]) \in Seq(Chunks)
        /\ <<>> \in Seq(Chunks)
    BY <1>3, BufferHead, EmptySeq DEF ReadBody, Chunks
  <2>2. WholeIn(Tail(buf[c])) \subseteq Frames
    BY <2>1, WholeInType
  <2>3. buf' \in [Conns -> Seq(Chunks)] /\ want' \in [Conns -> Frames \cup {None}]
    <3>1. want' \in [Conns -> Frames \cup {None}]
      BY <1>3 DEF ReadBody, Typed
    <3>2. \/ buf' = [buf EXCEPT ![c] = Tail(buf[c])]
          \/ buf' = [buf EXCEPT ![c] = <<>>]
      BY <1>3 DEF ReadBody
    <3>3. buf' \in [Conns -> Seq(Chunks)]
      BY <2>1, <3>2 DEF Typed
    <3>4. QED
      BY <3>1, <3>3
  <2>4. refused' \subseteq Frames /\ discarded' \subseteq Frames
    BY <1>3, <2>1, <2>2 DEF ReadBody, Typed
  <2>5. received' \subseteq Frames
    <3>1. CASE Decodes(c)
      BY <1>3, <2>1, <3>1, ConstantsAssumption DEF ReadBody, Decodes, Typed, Chunk
    <3>2. CASE ~Decodes(c)
      BY <1>3, <3>2 DEF ReadBody, Typed
    <3>3. QED
      BY <3>1, <3>2
  <2>6. server' \in [Conns -> {"none", "backlog", "len", "body"}]
    BY <1>3 DEF ReadBody, Typed
  <2>7. QED
    BY <1>3, <2>3, <2>4, <2>5, <2>6 DEF ReadBody, Typed, procVars
<1>4. CASE c \in Conns /\ EndOfFile(c)
  <2>1. truncated' \subseteq Frames
    BY <1>4 DEF EndOfFile, Typed, Ends
  <2>2. QED
    BY <1>4, <2>1 DEF EndOfFile, Typed, procVars
<1>5. CASE DaemonEnds
  <2>1. Buffered \subseteq Frames
    BY WholeInType DEF Buffered, Typed
  <2>2. <<>> \in Seq(Chunks)
    BY EmptySeq
  <2>3. QED
    BY <1>5, <2>1, <2>2 DEF DaemonEnds, Typed, procVars
<1>6. CASE DaemonStarts
  BY <1>6 DEF DaemonStarts, Typed, procVars, wireVars, fateVars
<1>7. CASE c \in Conns /\ RefuseLength(c)
  <2>1. NextFrame(c) \in Frames /\ <<>> \in Seq(Chunks) /\ WholeIn(buf[c]) \subseteq Frames
    BY <1>7, BufferHead, EmptySeq, WholeInType DEF RefuseLength, NextFrame, Chunks, Typed
  <2>2. buf' \in [Conns -> Seq(Chunks)] /\ server' \in [Conns -> {"none", "backlog", "len", "body"}]
    BY <1>7, <2>1 DEF RefuseLength, Typed
  <2>3. refused' \subseteq Frames /\ truncated' \subseteq Frames /\ discarded' \subseteq Frames
    BY <1>7, <2>1 DEF RefuseLength, Typed
  <2>4. QED
    BY <1>7, <2>2, <2>3 DEF RefuseLength, Typed, procVars
<1>8. QED
  BY <1>1, <1>2, <1>3, <1>4, <1>5, <1>6, <1>7 DEF DaemonStep

-----------------------------------------------------------------------------
(* Descriptors. *)

(* The only process a step of Sender sends for is the one that runs. *)
LEMMA SenderSends ==
  ASSUME NEW p \in Procs, Sender(p)
  PROVE  InSend(p)
BY DEF Sender, InSend, Connect, ConnectFails, WriteChunk, CanWrite, WouldBlock, PollReady,
       WriteTimeout, BudgetExpires, WriteError

LEMMA DescriptorsInit == Init => Descriptors
BY ConstantsAssumption DEF Init, Descriptors, InSend

LEMMA DescriptorsSender ==
  ASSUME Typed, Descriptors, NEW p \in Procs, Sender(p)
  PROVE  Descriptors'
<1> USE ConstantsAssumption DEF Typed, Descriptors, InSend
<1>1. CASE \E c \in Conns : Connect(p, c)
  BY <1>1 DEF Connect, Free
<1>2. CASE ConnectFails(p)
  BY <1>2 DEF ConnectFails, Drop, wireVars
<1>3. CASE WriteChunk(p)
  BY <1>3 DEF WriteChunk, CanWrite
<1>4. CASE WouldBlock(p)
  BY <1>4 DEF WouldBlock, CanWrite, wireVars
<1>5. CASE PollReady(p)
  BY <1>5 DEF PollReady, wireVars
<1>6. CASE WriteTimeout(p)
  BY <1>6 DEF WriteTimeout, BudgetExpires, Drop, CloseSocket
<1>7. CASE WriteError(p)
  BY <1>7 DEF WriteError, CanWrite, Drop, CloseSocket, RestartAt
<1>8. QED
  BY <1>1, <1>2, <1>3, <1>4, <1>5, <1>6, <1>7 DEF Sender

LEMMA DescriptorsOthers ==
  ASSUME Typed, Descriptors, NEW p \in Procs, NEW q \in Procs,
         EndRequest(p) \/ Fork(p, q) \/ Die(p)
  PROVE  Descriptors'
<1> USE ConstantsAssumption DEF Typed, Descriptors, InSend
<1>1. CASE EndRequest(p)
  BY <1>1 DEF EndRequest, OwnDescriptor, wireVars
<1>2. CASE Fork(p, q)
  BY <1>2 DEF Fork
<1>3. CASE Die(p)
  BY <1>3 DEF Die
<1>4. QED
  BY <1>1, <1>2, <1>3

LEMMA DescriptorsDaemon ==
  ASSUME Descriptors, UNCHANGED <<procVars, holders>>
  PROVE  Descriptors'
BY DEF Descriptors, InSend, procVars

-----------------------------------------------------------------------------
(* The ends of the connections. *)

LEMMA EndsInit == Init => Ends
BY DEF Init, Ends

LEMMA EndsSender ==
  ASSUME Typed, Ends, NEW p \in Procs, Sender(p)
  PROVE  Ends'
<1> USE ConstantsAssumption DEF Typed, Ends
<1>1. CASE \E c \in Conns : Connect(p, c)
  BY <1>1 DEF Connect, Free
<1>2. CASE WriteChunk(p)
  BY <1>2 DEF WriteChunk, CanWrite
<1>3. CASE ConnectFails(p) \/ WouldBlock(p) \/ PollReady(p) \/ WriteTimeout(p) \/ WriteError(p)
  <2>1. UNCHANGED <<server, want, buf>>
    BY <1>3 DEF ConnectFails, WouldBlock, PollReady, WriteTimeout, WriteError, wireVars
  <2>2. QED
    BY <2>1
<1>4. QED
  BY <1>1, <1>2, <1>3 DEF Sender

LEMMA EndsDaemon ==
  ASSUME Typed, Ends, NEW c, DaemonStep(c)
  PROVE  Ends'
<1> USE ConstantsAssumption DEF Typed, Ends
<1>1. CASE c \in Conns /\ Accept(c)
  BY <1>1 DEF Accept
<1>2. CASE c \in Conns /\ ReadLength(c)
  <2>1. Head(buf[c]).frame \in Frames
    BY <1>2, BufferHead DEF ReadLength, Chunks
  <2>2. QED
    BY <1>2, <2>1 DEF ReadLength, NextFrame
<1>3. CASE c \in Conns /\ ReadBody(c)
  BY <1>3 DEF ReadBody
<1>4. CASE c \in Conns /\ EndOfFile(c)
  BY <1>4 DEF EndOfFile
<1>5. CASE DaemonEnds \/ DaemonStarts
  BY <1>5 DEF DaemonEnds, DaemonStarts, wireVars
<1>6. CASE c \in Conns /\ RefuseLength(c)
  BY <1>6 DEF RefuseLength
<1>7. QED
  BY <1>1, <1>2, <1>3, <1>4, <1>5, <1>6 DEF DaemonStep

LEMMA EndsOthers ==
  ASSUME Ends, UNCHANGED <<server, want, buf>>
  PROVE  Ends'
BY DEF Ends

-----------------------------------------------------------------------------
(* Streams. *)

LEMMA FramedEmpty == Framed(<<>>) /\ ~Odd(<<>>)
BY EmptySeq DEF Framed, Odd

(* The length of a later frame may follow a whole one ... *)
LEMMA FramedLength ==
  ASSUME NEW s \in Seq(Chunks), NEW f \in Frames, Framed(s), ~Odd(s),
         s # <<>> => Latest(s)[1] = f[1] /\ Latest(s)[2] < f[2]
  PROVE  LET t == Append(s, Chunk(f, "len"))
         IN  t \in Seq(Chunks) /\ Framed(t) /\ Odd(t) /\ Latest(t) = f
<1> DEFINE e == Chunk(f, "len")
           t == Append(s, e)
<1>1. e \in Chunks /\ e.frame = f /\ e.part = "len"
  BY DEF Chunk, Chunks
<1>2. /\ t \in Seq(Chunks) /\ Len(t) = Len(s) + 1 /\ Len(s) \in Nat
      /\ \A i \in 1 .. Len(s) : t[i] = s[i]
      /\ t[Len(s) + 1] = e
  BY <1>1, AppendProperties, LenProperties
<1>3. s # <<>> <=> Len(s) > 0
  BY <1>2, EmptySeq
<1>4. \A i \in 1 .. Len(s) : s[i] \in Chunks
  BY ElementOfSeq
<1> HIDE DEF t, e
<1>5. Odd(t)
  BY <1>2 DEF Odd
<1>6. Latest(t) = f
  BY <1>1, <1>2 DEF Latest
<1>7. ASSUME NEW i \in 1 .. Len(t)
      PROVE  IF i % 2 = 0
             THEN t[i] = Chunk(t[i - 1].frame, "body")
             ELSE /\ t[i].part = "len"
                  /\ i > 1 => /\ t[i].frame[1] = t[i - 1].frame[1]
                              /\ t[i].frame[2] > t[i - 1].frame[2]
  <2>1. CASE i <= Len(s)
    <3>1. t[i] = s[i] /\ (i > 1 => t[i - 1] = s[i - 1]) /\ i \in 1 .. Len(s)
      BY <1>2, <2>1
    <3>2. i % 2 = 0 => i > 1
      OBVIOUS
    <3>3. QED
      BY <3>1, <3>2 DEF Framed
  <2>2. CASE i = Len(s) + 1
    <3>1. i % 2 # 0
      BY <1>2, <2>2 DEF Odd
    <3>2. t[i].part = "len" /\ t[i].frame = f
      BY <1>1, <1>2, <2>2
    <3>3. i > 1 => /\ t[i - 1] = s[Len(s)] /\ s # <<>>
                   /\ s[Len(s)].frame \in Frames
      BY <1>2, <1>3, <1>4, <2>2 DEF Chunks
    <3>4. i > 1 => Latest(s)[1] = f[1] /\ Latest(s)[2] < f[2]
      BY <3>3
    <3>5. i > 1 => f[2] > s[Len(s)].frame[2]
      BY <3>3, <3>4, ConstantsAssumption DEF Latest, Frames
    <3>6. QED
      BY <3>1, <3>2, <3>3, <3>4, <3>5 DEF Latest
  <2>3. QED
    BY <1>2, <2>1, <2>2
<1>8. QED
  BY <1>2, <1>5, <1>6, <1>7 DEF Framed, t, e

(* ... and the body of an unfinished one. *)
LEMMA FramedBody ==
  ASSUME NEW s \in Seq(Chunks), Framed(s), Odd(s)
  PROVE  LET t == Append(s, Chunk(Latest(s), "body"))
         IN  t \in Seq(Chunks) /\ Framed(t) /\ ~Odd(t) /\ Latest(t) = Latest(s)
<1> DEFINE e == Chunk(Latest(s), "body")
           t == Append(s, e)
<1>1. Len(s) \in Nat /\ Len(s) > 0
  BY LenProperties DEF Odd
<1>2. e \in Chunks /\ e.frame = Latest(s)
  <2>1. s[Len(s)] \in Chunks
    BY <1>1, ElementOfSeq
  <2>2. Latest(s) \in Frames
    BY <2>1 DEF Chunks, Latest
  <2>3. QED
    BY <2>2 DEF Chunk, Chunks
<1>3. /\ t \in Seq(Chunks) /\ Len(t) = Len(s) + 1
      /\ \A i \in 1 .. Len(s) : t[i] = s[i]
      /\ t[Len(s) + 1] = e
  BY <1>2, AppendProperties
<1>4. e = Chunk(t[Len(s)].frame, "body")
  BY <1>1, <1>3 DEF Latest
<1> HIDE DEF t, e
<1>5. ~Odd(t)
  BY <1>1, <1>3 DEF Odd
<1>6. Latest(t) = Latest(s)
  BY <1>1, <1>2, <1>3 DEF Latest
<1>7. ASSUME NEW i \in 1 .. Len(t)
      PROVE  IF i % 2 = 0
             THEN t[i] = Chunk(t[i - 1].frame, "body")
             ELSE /\ t[i].part = "len"
                  /\ i > 1 => /\ t[i].frame[1] = t[i - 1].frame[1]
                              /\ t[i].frame[2] > t[i - 1].frame[2]
  <2>1. CASE i <= Len(s)
    <3>1. t[i] = s[i] /\ (i > 1 => t[i - 1] = s[i - 1]) /\ i \in 1 .. Len(s)
      BY <1>1, <1>3, <2>1
    <3>2. i % 2 = 0 => i > 1
      OBVIOUS
    <3>3. QED
      BY <3>1, <3>2 DEF Framed
  <2>2. CASE i = Len(s) + 1
    <3>1. i % 2 = 0
      BY <1>1, <2>2 DEF Odd
    <3>2. i - 1 = Len(s)
      BY <1>1, <2>2
    <3>3. QED
      BY <1>3, <1>4, <2>2, <3>1, <3>2
  <2>3. QED
    BY <1>1, <1>3, <2>1, <2>2
<1>8. QED
  BY <1>3, <1>5, <1>6, <1>7 DEF Framed, t, e

(* A stream without its first frame. *)
LEMMA FramedTail ==
  ASSUME NEW s \in Seq(Chunks), Framed(s), Len(s) >= 2,
         NEW t \in Seq(Chunks), Len(t) = Len(s) - 2,
         \A i \in 1 .. Len(t) : t[i] = s[i + 2]
  PROVE  /\ Framed(t)
         /\ Odd(t) <=> Odd(s)
         /\ t # <<>> => Latest(t) = Latest(s)
<1>1. Len(s) \in Nat /\ Len(t) \in Nat
  BY LenProperties
<1>2. ASSUME NEW i \in 1 .. Len(t)
      PROVE  IF i % 2 = 0
             THEN t[i] = Chunk(t[i - 1].frame, "body")
             ELSE /\ t[i].part = "len"
                  /\ i > 1 => /\ t[i].frame[1] = t[i - 1].frame[1]
                              /\ t[i].frame[2] > t[i - 1].frame[2]
  <2>1. /\ t[i] = s[i + 2] /\ (i > 1 => t[i - 1] = s[i + 1])
        /\ i + 2 \in 1 .. Len(s) /\ (i + 2) % 2 = i % 2
        /\ (i + 2) - 1 = i + 1
    BY <1>1
  <2>2. i % 2 = 0 => i > 1
    OBVIOUS
  <2>3. QED
    BY <2>1, <2>2 DEF Framed
<1>3. Framed(t)
  BY <1>2 DEF Framed
<1>4. Odd(t) <=> Odd(s)
  BY <1>1 DEF Odd
<1>5. t # <<>> => Latest(t) = Latest(s)
  BY <1>1, EmptySeq DEF Latest
<1>6. QED
  BY <1>3, <1>4, <1>5

(* The stream of a connection, by its places. *)
LEMMA StreamParts ==
  ASSUME Typed, NEW c \in Conns
  PROVE  /\ Stream(c) \in Seq(Chunks)
         /\ buf[c] \in Seq(Chunks)
         /\ want[c] = None => Stream(c) = buf[c]
         /\ want[c] # None => /\ Len(Stream(c)) = Len(buf[c]) + 1
                              /\ Stream(c)[1] = Chunk(want[c], "len")
                              /\ \A i \in 1 .. Len(buf[c]) : Stream(c)[i + 1] = buf[c][i]
<1>1. buf[c] \in Seq(Chunks)
  BY DEF Typed
<1>2. CASE want[c] = None
  BY <1>1, <1>2 DEF Stream
<1>3. CASE want[c] # None
  <2> DEFINE l == <<Chunk(want[c], "len")>>
  <2>1. Chunk(want[c], "len") \in Chunks
    BY <1>3 DEF Typed, Chunk, Chunks
  <2>2. l \in Seq(Chunks) /\ Len(l) = 1 /\ l[1] = Chunk(want[c], "len")
    BY <2>1
  <2>3. Stream(c) = l \o buf[c]
    BY <1>3 DEF Stream
  <2> HIDE DEF l
  <2>4. Len(buf[c]) \in Nat
    BY <1>1, LenProperties
  <2>5. /\ Stream(c) \in Seq(Chunks) /\ Len(Stream(c)) = 1 + Len(buf[c])
        /\ \A i \in 1 .. 1 + Len(buf[c]) : Stream(c)[i] = IF i <= 1 THEN l[i] ELSE buf[c][i - 1]
    <3>1. l \o buf[c] \in Seq(Chunks)
      BY <1>1, <2>2, ConcatProperties, Zenon
    <3>2. Len(l \o buf[c]) = Len(l) + Len(buf[c])
      BY <1>1, <2>2, ConcatProperties, Zenon
    <3>3. \A i \in 1 .. Len(l) + Len(buf[c]) :
             (l \o buf[c])[i] = IF i <= Len(l) THEN l[i] ELSE buf[c][i - Len(l)]
      BY <1>1, <2>2, ConcatProperties, Zenon
    <3>4. QED
      BY <2>2, <2>3, <3>1, <3>2, <3>3
  <2>6. ASSUME NEW i \in 1 .. Len(buf[c])
        PROVE  Stream(c)[i + 1] = buf[c][i]
    BY <2>4, <2>5
  <2>7. QED
    BY <1>1, <1>3, <2>2, <2>4, <2>5, <2>6
<1>4. QED
  BY <1>2, <1>3

LEMMA StreamLatest ==
  ASSUME Typed, NEW c \in Conns, Stream(c) # <<>>
  PROVE  Latest(Stream(c)) \in Frames
<1>1. Stream(c) \in Seq(Chunks)
  BY StreamParts
<1>2. Len(Stream(c)) \in 1 .. Len(Stream(c))
  BY <1>1, EmptySeq
<1>3. Stream(c)[Len(Stream(c))] \in Chunks
  BY <1>1, <1>2, ElementOfSeq
<1>4. QED
  BY <1>3 DEF Latest, Chunks

(* Nothing is left to read from a closed connection. *)
LEMMA StreamClosed ==
  ASSUME Typed, Ends, NEW c \in Conns, server[c] = "none"
  PROVE  Stream(c) = <<>>
BY DEF Typed, Ends, Stream

LEMMA StreamsInit == Init => Streams
<1> SUFFICES ASSUME Init, NEW c \in Conns
             PROVE  /\ Framed(Stream(c))
                    /\ \A p \in Procs :
                         fd[p] = c /\ pid[p] = p /\ server[c] # "none" => Continues(p, Stream(c))
                    /\ ~Odd(Stream(c))
  BY DEF Streams
<1>1. Stream(c) = <<>>
  BY DEF Init, Stream
<1>2. \A p \in Procs : fd[p] # c
  BY ConstantsAssumption DEF Init
<1>3. QED
  BY <1>1, <1>2, FramedEmpty

LEMMA StreamsEndRequest ==
  ASSUME Typed, Descriptors, Streams, NEW p \in Procs, EndRequest(p)
  PROVE  Streams'
<1> SUFFICES ASSUME NEW c \in Conns
             PROVE  /\ Framed(Stream(c))'
                    /\ \A r \in Procs : (fd[r] = c /\ pid[r] = r /\ server[c] # "none" =>
                                            Continues(r, Stream(c)))'
                    /\ Odd(Stream(c))' =>
                         \/ (Latest(Stream(c)) \in losses \cup buried)'
                         \/ \E r \in Procs : (Writes(r, c) /\ Latest(Stream(c)) = Current(r))'
  BY DEF Streams
<1>1. Stream(c)' = Stream(c)
  BY DEF EndRequest, wireVars, Stream
<1>2. Framed(Stream(c))'
  BY <1>1 DEF Streams
<1>3. ASSUME NEW r \in Procs, (fd[r] = c /\ pid[r] = r /\ server[c] # "none")'
      PROVE  Continues(r, Stream(c))'
  <2>1. fd[r] = c /\ pid[r] = r /\ server[c] # "none"
    BY <1>3, ConstantsAssumption DEF EndRequest, OwnDescriptor, wireVars, Typed
  <2>2. Continues(r, Stream(c))
    BY <2>1 DEF Streams
  <2>3. CASE r = p
    <3>1. ~InSend(p) /\ InSend(p)' /\ off'[p] = 0 /\ req'[p] = req[p] + 1 /\ req[p] \in Nat
      BY ConstantsAssumption DEF EndRequest, InSend, Typed
    <3>2. /\ ~Odd(Stream(c))
          /\ Stream(c) # <<>> => Latest(Stream(c))[1] = p /\ Latest(Stream(c))[2] <= req[p]
      BY <2>2, <2>3, <3>1 DEF Continues
    <3>3. Stream(c) # <<>> => Latest(Stream(c)) \in Frames
      BY StreamLatest
    <3>4. Stream(c) # <<>> => Latest(Stream(c))[2] < req'[p] /\ Latest(Stream(c))[2] <= req'[p]
      BY <3>1, <3>2, <3>3, ConstantsAssumption DEF Frames
    <3>5. QED
      BY <1>1, <2>3, <3>1, <3>2, <3>4 DEF Continues
  <2>4. CASE r # p
    BY <1>1, <2>2, <2>4 DEF Continues, EndRequest, InSend, Current, Typed
  <2>5. QED
    BY <2>3, <2>4
<1>4. ASSUME Odd(Stream(c))'
      PROVE  \/ (Latest(Stream(c)) \in losses \cup buried)'
             \/ \E r \in Procs : (Writes(r, c) /\ Latest(Stream(c)) = Current(r))'
  <2>1. losses' = losses /\ buried' = buried
    BY DEF EndRequest, fateVars
  <2>2. ASSUME NEW r \in Procs, Writes(r, c)
        PROVE  Writes(r, c)' /\ Current(r)' = Current(r)
    BY <2>2 DEF Writes, InSend, Current, EndRequest, Typed
  <2>3. QED
    BY <1>1, <1>4, <2>1, <2>2 DEF Streams
<1>5. QED
  BY <1>2, <1>3, <1>4

(* A process that has no connection, or opens one.                         *)
LEMMA StreamsConnect ==
  ASSUME Typed, Descriptors, Ends, Streams, NEW p \in Procs,
         ConnectFails(p) \/ \E d \in Conns : Connect(p, d)
  PROVE  Streams'
<1> SUFFICES ASSUME NEW c \in Conns
             PROVE  /\ Framed(Stream(c))'
                    /\ \A r \in Procs : (fd[r] = c /\ pid[r] = r /\ server[c] # "none" =>
                                            Continues(r, Stream(c)))'
                    /\ Odd(Stream(c))' =>
                         \/ (Latest(Stream(c)) \in losses \cup buried)'
                         \/ \E r \in Procs : (Writes(r, c) /\ Latest(Stream(c)) = Current(r))'
  BY DEF Streams
<1>0. fd[p] = None /\ InSend(p) /\ off[p] = 0 /\ c # None
  BY ConstantsAssumption DEF Descriptors, InSend, Connect, ConnectFails
<1>1. Stream(c)' = Stream(c)
  BY DEF Connect, ConnectFails, wireVars, Stream
<1>2. /\ UNCHANGED <<req, off, buried>> /\ losses \subseteq losses'
      /\ \A r \in Procs : r # p => /\ state'[r] = state[r] /\ fd'[r] = fd[r] /\ pid'[r] = pid[r]
  BY DEF Connect, ConnectFails, Drop, fateVars, Typed
<1>3. ASSUME NEW r \in Procs, (fd[r] = c /\ pid[r] = r /\ server[c] # "none")'
      PROVE  Continues(r, Stream(c))'
  <2>1. CASE r = p
    <3>1. Connect(p, c)
      BY <1>0, <1>3, <2>1 DEF Connect, ConnectFails, Typed
    <3>2. Stream(c) = <<>>
      BY <3>1, StreamClosed DEF Connect, Free
    <3>3. off'[p] = 0
      BY <1>0, <1>2
    <3>4. QED
      BY <1>1, <2>1, <3>2, <3>3, FramedEmpty DEF Continues
  <2>2. CASE r # p
    <3>1. fd[r] = c /\ pid[r] = r /\ r \in holders[c]
      BY <1>0, <1>2, <1>3, <2>2 DEF Descriptors
    <3>2. server[c] # "none"
      BY <1>3, <3>1 DEF Connect, ConnectFails, Free, wireVars, Typed
    <3>3. Continues(r, Stream(c))
      BY <3>1, <3>2 DEF Streams
    <3>4. QED
      BY <1>1, <1>2, <2>2, <3>3 DEF Continues, InSend, Current
  <2>3. QED
    BY <2>1, <2>2
<1>4. ASSUME NEW r \in Procs, Writes(r, c)
      PROVE  Writes(r, c)' /\ Current(r)' = Current(r)
  BY <1>0, <1>2, <1>4 DEF Writes, InSend, Current
<1>5. QED
  BY <1>1, <1>2, <1>3, <1>4 DEF Streams

(* The one that gives its connection up. *)
LEMMA StreamsClose ==
  ASSUME Typed, Descriptors, Ends, Streams, NEW p \in Procs,
         WriteTimeout(p) \/ WriteError(p)
  PROVE  Streams'
<1> SUFFICES ASSUME NEW c \in Conns
             PROVE  /\ Framed(Stream(c))'
                    /\ \A r \in Procs : (fd[r] = c /\ pid[r] = r /\ server[c] # "none" =>
                                            Continues(r, Stream(c)))'
                    /\ Odd(Stream(c))' =>
                         \/ (Latest(Stream(c)) \in losses \cup buried)'
                         \/ \E r \in Procs : (Writes(r, c) /\ Latest(Stream(c)) = Current(r))'
  BY DEF Streams
<1>0. fd[p] # None /\ InSend(p)
  BY DEF Descriptors, InSend, WriteTimeout, BudgetExpires, WriteError, CanWrite
<1>1. Stream(c)' = Stream(c) /\ server' = server /\ req' = req /\ buried' = buried
  BY DEF WriteTimeout, WriteError, Stream
<1>2. /\ \A r \in Procs : r # p => /\ state'[r] = state[r] /\ fd'[r] = fd[r]
                                     /\ pid'[r] = pid[r] /\ off'[r] = off[r]
      /\ fd'[p] = None
  BY DEF WriteTimeout, WriteError, Drop, CloseSocket, Typed
<1>3. losses \subseteq losses'
  BY DEF WriteTimeout, WriteError, Drop
<1>4. ASSUME NEW r \in Procs, (fd[r] = c /\ pid[r] = r /\ server[c] # "none")'
      PROVE  Continues(r, Stream(c))'
  <2>1. r # p
    BY <1>2, <1>4, ConstantsAssumption
  <2>2. Continues(r, Stream(c))
    BY <1>1, <1>2, <1>4, <2>1 DEF Streams
  <2>3. QED
    BY <1>1, <1>2, <2>1, <2>2 DEF Continues, InSend, Current
<1>5. ASSUME Odd(Stream(c)), NEW r \in Procs, Writes(r, c), Latest(Stream(c)) = Current(r)
      PROVE  \/ Latest(Stream(c)) \in losses'
             \/ Writes(r, c)' /\ Current(r)' = Current(r)
  <2>1. CASE r # p
    BY <1>1, <1>2, <1>5, <2>1 DEF Writes, InSend, Current
  <2>2. CASE r = p
    <3>1. ~WriteError(p)
      BY <1>5, <2>2, StreamClosed, FramedEmpty DEF WriteError, Writes
    <3>2. Current(p) \in losses'
      BY <3>1 DEF WriteTimeout, Drop
    <3>3. QED
      BY <1>5, <2>2, <3>2
  <2>3. QED
    BY <2>1, <2>2
<1>6. QED
  BY <1>1, <1>3, <1>4, <1>5 DEF Streams

(* The one that waits. *)
LEMMA StreamsWait ==
  ASSUME Typed, Descriptors, Ends, Streams, NEW p \in Procs,
         WouldBlock(p) \/ PollReady(p)
  PROVE  Streams'
<1> SUFFICES ASSUME NEW c \in Conns
             PROVE  /\ Framed(Stream(c))'
                    /\ \A r \in Procs : (fd[r] = c /\ pid[r] = r /\ server[c] # "none" =>
                                            Continues(r, Stream(c)))'
                    /\ Odd(Stream(c))' =>
                         \/ (Latest(Stream(c)) \in losses \cup buried)'
                         \/ \E r \in Procs : (Writes(r, c) /\ Latest(Stream(c)) = Current(r))'
  BY DEF Streams
<1>1. /\ Stream(c)' = Stream(c)
      /\ UNCHANGED <<req, fd, pid, off, server, losses, buried>>
  BY DEF WouldBlock, PollReady, wireVars, fateVars, Stream
<1>2. \A r \in Procs : InSend(r)' <=> InSend(r)
  BY DEF WouldBlock, PollReady, CanWrite, InSend, Typed
<1>3. QED
  BY <1>1, <1>2 DEF Streams, Continues, Writes, Current

LEMMA Reassociate ==
  ASSUME NEW r \in Seq(Chunks), NEW s \in Seq(Chunks), NEW t \in Seq(Chunks)
  PROVE  (r \o s) \o t = r \o (s \o t)
BY ConcatAssociative, SMTT(30)

(* The one that writes: the chunk goes at the end of its stream.           *)
LEMMA StreamWritten ==
  ASSUME Typed, NEW p \in Procs, WriteChunk(p), Current(p) \in Frames,
         NEW c \in Conns, fd[p] = c
  PROVE  Stream(c)' = Append(Stream(c),
                             Chunk(Current(p), IF off[p] = 0 THEN "len" ELSE "body"))
<1> DEFINE e == Chunk(Current(p), IF off[p] = 0 THEN "len" ELSE "body")
<1>1. e \in Chunks
  BY DEF Chunk, Chunks
<1>2. buf'[c] = Append(buf[c], e) /\ want' = want
  BY DEF WriteChunk, Typed
<1> DEFINE m == <<e>>
<1>3. buf[c] \in Seq(Chunks) /\ m \in Seq(Chunks)
  BY <1>1 DEF Typed
<1> HIDE DEF e, m
<1>4. Append(buf[c], e) = buf[c] \o m
  BY <1>1, <1>3, AppendIsConcat DEF m
<1>5. CASE want[c] = None
  BY <1>2, <1>5 DEF Stream, e
<1>6. CASE want[c] # None
  <2> DEFINE l == <<Chunk(want[c], "len")>>
  <2>1. l \in Seq(Chunks)
    BY <1>6 DEF Typed, Chunk, Chunks
  <2>2. Stream(c) = l \o buf[c] /\ Stream(c)' = l \o Append(buf[c], e)
    BY <1>2, <1>6 DEF Stream
  <2>3. Stream(c) \in Seq(Chunks)
    BY StreamParts
  <2> HIDE DEF l
  <2>4. Append(Stream(c), e) = Stream(c) \o m
    BY <1>1, <2>3, AppendIsConcat DEF m
  <2>5. (l \o buf[c]) \o m = l \o (buf[c] \o m)
    BY <1>3, <2>1, Reassociate, Zenon
  <2>6. QED
    BY <1>4, <2>2, <2>4, <2>5 DEF e
<1>7. QED
  BY <1>5, <1>6

LEMMA StreamsWrite ==
  ASSUME Typed, Descriptors, Ends, Streams, NEW p \in Procs, WriteChunk(p)
  PROVE  Streams'
<1> SUFFICES ASSUME NEW c \in Conns
             PROVE  /\ Framed(Stream(c))'
                    /\ \A r \in Procs : (fd[r] = c /\ pid[r] = r /\ server[c] # "none" =>
                                            Continues(r, Stream(c)))'
                    /\ Odd(Stream(c))' =>
                         \/ (Latest(Stream(c)) \in losses \cup buried)'
                         \/ \E r \in Procs : (Writes(r, c) /\ Latest(Stream(c)) = Current(r))'
  BY DEF Streams
<1> DEFINE d == fd[p]
           s == Stream(d)
<1>0. /\ d \in Conns /\ pid[p] = p /\ server[d] # "none" /\ InSend(p) /\ req[p] > 0
      /\ Current(p) \in Frames /\ off'[p] = 1
      /\ Continues(p, s) /\ Framed(s) /\ s \in Seq(Chunks)
  <2>1. d \in Conns /\ server[d] # "none" /\ InSend(p) /\ off'[p] = 1
    BY DEF WriteChunk, CanWrite, InSend, Typed
  <2>2. pid[p] = p /\ req[p] > 0 /\ Current(p) \in Frames
    BY <2>1, CurrentType, ConstantsAssumption DEF Descriptors, WriteChunk, CanWrite
  <2>3. Continues(p, s) /\ Framed(s)
    BY <2>1, <2>2 DEF Streams
  <2>4. QED
    BY <2>1, <2>2, <2>3, StreamParts
<1>1. /\ UNCHANGED <<req, fd, pid, server, losses, buried>>
      /\ \A r \in Procs : r # p => state'[r] = state[r] /\ off'[r] = off[r]
  BY DEF WriteChunk, fateVars, Typed
<1>2. ASSUME c # d
      PROVE  Stream(c)' = Stream(c)
  BY <1>2 DEF WriteChunk, Stream, Typed
<1>3. ASSUME NEW r \in Procs, fd[r] = d, pid[r] = r
      PROVE  r = p
  BY <1>0, <1>3, ConstantsAssumption DEF Descriptors
<1>4. Stream(d)' = Append(s, Chunk(Current(p), IF off[p] = 0 THEN "len" ELSE "body"))
  BY <1>0, <1>1, StreamWritten
<1>5. /\ Framed(Stream(d)') /\ Latest(Stream(d)') = Current(p)
      /\ IF off[p] = 0 THEN Odd(Stream(d)') /\ InSend(p)' ELSE ~Odd(Stream(d)') /\ ~InSend(p)'
  <2>1. CASE off[p] = 0
    <3>1. ~Odd(s) /\ (s # <<>> => Latest(s)[1] = p /\ Latest(s)[2] < req[p])
      BY <1>0, <2>1 DEF Continues
    <3>2. Current(p)[1] = p /\ Current(p)[2] = req[p]
      BY DEF Current
    <3>3. Stream(d)' = Append(s, Chunk(Current(p), "len"))
      BY <1>4, <2>1
    <3>4. Framed(Stream(d)') /\ Odd(Stream(d)') /\ Latest(Stream(d)') = Current(p)
      BY <1>0, <3>1, <3>2, <3>3, FramedLength
    <3>5. InSend(p)'
      BY <2>1 DEF WriteChunk, CanWrite, InSend, Typed
    <3>6. QED
      BY <2>1, <3>4, <3>5
  <2>2. CASE off[p] # 0
    <3>1. off[p] = 1
      BY <2>2 DEF Typed
    <3>2. Odd(s) /\ Latest(s) = Current(p)
      BY <1>0, <3>1 DEF Continues
    <3>3. Stream(d)' = Append(s, Chunk(Latest(s), "body"))
      BY <1>4, <2>2, <3>2
    <3>4. Framed(Stream(d)') /\ ~Odd(Stream(d)') /\ Latest(Stream(d)') = Current(p)
      BY <1>0, <3>2, <3>3, FramedBody
    <3>5. ~InSend(p)'
      BY <3>1 DEF WriteChunk, InSend, Typed
    <3>6. QED
      BY <2>2, <3>4, <3>5
  <2>3. QED
    BY <2>1, <2>2
<1>6. CASE c = d
  <2>1. Continues(p, Stream(d))'
    <3>1. Current(p)' = Current(p) /\ req'[p] = req[p] /\ req[p] \in Nat
      BY <1>1, ConstantsAssumption DEF Current, Typed
    <3>2. Current(p)[1] = p /\ Current(p)[2] = req[p]
      BY DEF Current
    <3>3. QED
      BY <1>0, <1>5, <3>1, <3>2 DEF Continues
  <2>2. Odd(Stream(d)') => (Writes(p, d) /\ Latest(Stream(d)) = Current(p))'
    BY <1>0, <1>1, <1>5 DEF Writes, Current
  <2>3. QED
    BY <1>0, <1>1, <1>3, <1>5, <1>6, <2>1, <2>2
<1>7. CASE c # d
  <2>1. \A r \in Procs : fd[r] = c => r # p
    BY <1>7
  <2>2. QED
    BY <1>1, <1>2, <1>7, <2>1 DEF Streams, Continues, Writes, InSend, Current
<1>8. QED
  BY <1>6, <1>7

(* A child writes on no connection of its parent; what a worker leaves     *)
(* unfinished dies with it.                                                *)
LEMMA StreamsProcess ==
  ASSUME Typed, Descriptors, Streams, NEW p \in Procs, NEW q \in Procs, Fork(p, q) \/ Die(p)
  PROVE  Streams'
<1> SUFFICES ASSUME NEW c \in Conns
             PROVE  /\ Framed(Stream(c))'
                    /\ \A r \in Procs : (fd[r] = c /\ pid[r] = r /\ server[c] # "none" =>
                                            Continues(r, Stream(c)))'
                    /\ Odd(Stream(c))' =>
                         \/ (Latest(Stream(c)) \in losses \cup buried)'
                         \/ \E r \in Procs : (Writes(r, c) /\ Latest(Stream(c)) = Current(r))'
  BY DEF Streams
<1>1. Stream(c)' = Stream(c) /\ UNCHANGED <<server, req, off, losses>> /\ buried \subseteq buried'
  BY DEF Fork, Die, Stream, fateVars
<1>2. CASE Fork(p, q)
  <2>1. /\ \A r \in Procs : r # q => /\ state'[r] = state[r] /\ fd'[r] = fd[r]
                                       /\ pid'[r] = pid[r]
        /\ ~InSend(q) /\ p # q /\ pid[p] # q
        /\ pid'[q] = pid[p] /\ fd[q] = None
    BY <1>2, ConstantsAssumption DEF Fork, InSend, Typed, Descriptors
  <2>2. QED
    BY <1>1, <2>1 DEF Streams, Continues, Writes, InSend, Current
<1>3. CASE Die(p)
  <2>1. /\ \A r \in Procs : r # p => /\ state'[r] = state[r] /\ fd'[r] = fd[r]
                                       /\ pid'[r] = pid[r]
        /\ fd'[p] = None /\ (InSend(p) => Current(p) \in buried')
    BY <1>3 DEF Die, Typed
  <2>2. QED
    BY <1>1, <2>1, ConstantsAssumption DEF Streams, Continues, Writes, InSend, Current
<1>4. QED
  BY <1>2, <1>3

(* What handle takes of a connection: the length word stays in its stream, *)
(* a frame leaves it whole.                                                *)
LEMMA StreamAtLength ==
  ASSUME Typed, Ends, NEW c \in Conns, Framed(Stream(c)), ReadLength(c)
  PROVE  Stream(c)' = Stream(c)
<1> DEFINE s == buf[c]
           l == <<Chunk(s[1].frame, "len")>>
<1>1. want[c] = None /\ Stream(c) = s
  BY DEF Ends, ReadLength, Stream
<1>2. /\ s \in Seq(Chunks) /\ Tail(s) \in Seq(Chunks) /\ Len(s) \in Nat \ {0}
      /\ Head(s) = s[1] /\ s[1] \in Chunks /\ Len(Tail(s)) = Len(s) - 1
      /\ \A i \in 1 .. Len(s) - 1 : Tail(s)[i] = s[i + 1]
  BY BufferHead DEF ReadLength, Typed
<1>3. s[1].part = "len"
  <2>1. 1 \in 1 .. Len(s) /\ 1 % 2 # 0
    BY <1>2
  <2>2. QED
    BY <1>1, <2>1 DEF Framed
<1>4. s[1] = Chunk(s[1].frame, "len") /\ s[1].frame \in Frames
  BY <1>2, <1>3 DEF Chunks, Chunk
<1>5. Stream(c)' = l \o Tail(s)
  <2>1. want'[c] = s[1].frame /\ buf'[c] = Tail(s)
    BY <1>2 DEF ReadLength, NextFrame, Typed
  <2>2. s[1].frame # None
    BY <1>4, ConstantsAssumption
  <2>3. QED
    BY <2>1, <2>2 DEF Stream
<1>6. l \in Seq(Chunks) /\ Len(l) = 1 /\ l[1] = s[1]
  BY <1>2, <1>4
<1> HIDE DEF s, l
<1>7. l \o Tail(s) \in Seq(Chunks)
  BY <1>2, <1>6, ConcatProperties, Zenon
<1>8. Len(l \o Tail(s)) = Len(l) + Len(Tail(s))
  BY <1>2, <1>6, ConcatProperties, Zenon
<1>9. \A i \in 1 .. Len(l) + Len(Tail(s)) :
         (l \o Tail(s))[i] = IF i <= Len(l) THEN l[i] ELSE Tail(s)[i - Len(l)]
  BY <1>2, <1>6, ConcatProperties, Zenon
<1>10. Len(l \o Tail(s)) = Len(s) /\ \A i \in 1 .. Len(s) : (l \o Tail(s))[i] = s[i]
  BY <1>2, <1>6, <1>8, <1>9
<1>11. l \o Tail(s) = s
  BY <1>2, <1>7, <1>10, SeqEqual
<1>12. QED
  BY <1>1, <1>5, <1>11

(* What handle has in hand when it reads a body, and what follows.         *)
LEMMA StreamAtBody ==
  ASSUME Typed, Ends, NEW c \in Conns, Framed(Stream(c)), server[c] = "body", buf[c] # <<>>
  PROVE  /\ want[c] \in Frames
         /\ Head(buf[c]) = Chunk(want[c], "body")
         /\ Framed(Tail(buf[c]))
         /\ Odd(Tail(buf[c])) <=> Odd(Stream(c))
         /\ Tail(buf[c]) # <<>> => Latest(Tail(buf[c])) = Latest(Stream(c))
<1>1. want[c] \in Frames /\ want[c] # None
  BY DEF Ends, Typed
<1>2. /\ Stream(c) \in Seq(Chunks) /\ Len(Stream(c)) = Len(buf[c]) + 1
      /\ Stream(c)[1] = Chunk(want[c], "len")
      /\ \A i \in 1 .. Len(buf[c]) : Stream(c)[i + 1] = buf[c][i]
  BY <1>1, StreamParts
<1>3. /\ Tail(buf[c]) \in Seq(Chunks) /\ Len(buf[c]) \in Nat \ {0}
      /\ Head(buf[c]) = buf[c][1] /\ Len(Tail(buf[c])) = Len(buf[c]) - 1
      /\ \A i \in 1 .. Len(buf[c]) - 1 : Tail(buf[c])[i] = buf[c][i + 1]
  BY BufferHead
<1>4. Head(buf[c]) = Chunk(want[c], "body")
  <2>1. 2 \in 1 .. Len(Stream(c)) /\ 2 % 2 = 0 /\ Stream(c)[2] = buf[c][1] /\ 2 - 1 = 1
    BY <1>2, <1>3
  <2>2. Stream(c)[2] = Chunk(Stream(c)[1].frame, "body")
    BY <2>1 DEF Framed
  <2>3. Stream(c)[1].frame = want[c]
    BY <1>2 DEF Chunk
  <2>4. QED
    BY <1>3, <2>1, <2>2, <2>3
<1>5. /\ Len(Stream(c)) >= 2 /\ Len(Tail(buf[c])) = Len(Stream(c)) - 2
      /\ \A i \in 1 .. Len(Tail(buf[c])) : Tail(buf[c])[i] = Stream(c)[i + 2]
  <2>1. ASSUME NEW i \in 1 .. Len(buf[c]) - 1
        PROVE  Tail(buf[c])[i] = Stream(c)[i + 2]
    <3>1. i + 1 \in 1 .. Len(buf[c]) /\ (i + 1) + 1 = i + 2
      BY <1>3
    <3>2. QED
      BY <1>2, <1>3, <3>1
  <2>2. QED
    BY <1>2, <1>3, <2>1
<1>6. QED
  BY <1>1, <1>2, <1>3, <1>4, <1>5, FramedTail

LEMMA StreamsDaemon ==
  ASSUME Typed, Descriptors, Ends, Streams, NEW c, DaemonStep(c)
  PROVE  Streams'
<1> SUFFICES ASSUME NEW d \in Conns
             PROVE  /\ Framed(Stream(d))'
                    /\ \A r \in Procs : (fd[r] = d /\ pid[r] = r /\ server[d] # "none" =>
                                            Continues(r, Stream(d)))'
                    /\ Odd(Stream(d))' =>
                         \/ (Latest(Stream(d)) \in losses \cup buried)'
                         \/ \E r \in Procs : (Writes(r, d) /\ Latest(Stream(d)) = Current(r))'
  BY DEF Streams
<1>0. UNCHANGED <<state, req, fd, pid, off, losses, buried>>
  BY DEF DaemonStep, Accept, ReadLength, RefuseLength, ReadBody, EndOfFile, DaemonEnds, DaemonStarts, procVars, fateVars
<1>1. CASE Stream(d)' = Stream(d) /\ (server[d] = "none" => server'[d] = "none")
  BY <1>0, <1>1 DEF Streams, Continues, Writes, InSend, Current
<1>2. CASE Stream(d)' = <<>> /\ server'[d] = "none"
  BY <1>2, FramedEmpty
<1>3. CASE (c \in Conns /\ Accept(c)) \/ DaemonStarts
  <2>1. Stream(d)' = Stream(d) /\ (server[d] = "none" => server'[d] = "none")
    BY <1>3 DEF Accept, DaemonStarts, wireVars, Stream, Typed
  <2>2. QED
    BY <1>1, <2>1
<1>4. CASE DaemonEnds
  <2>1. Stream(d)' = <<>> /\ server'[d] = "none"
    BY <1>4 DEF DaemonEnds, Stream
  <2>2. QED
    BY <1>2, <2>1
<1>5. CASE (ReadLength(c) \/ RefuseLength(c) \/ ReadBody(c) \/ EndOfFile(c)) /\ d # c
  <2>1. Stream(d)' = Stream(d) /\ server'[d] = server[d]
    BY <1>5 DEF ReadLength, RefuseLength, ReadBody, EndOfFile, Stream, Typed
  <2>2. QED
    BY <1>1, <2>1
<1>6. CASE c \in Conns /\ ReadLength(c) /\ d = c
  <2>1. Stream(d)' = Stream(d) /\ server[d] # "none"
    BY <1>6, StreamAtLength DEF ReadLength, Streams
  <2>2. QED
    BY <1>1, <2>1
<1>7. CASE c \in Conns /\ (EndOfFile(c) \/ RefuseLength(c)) /\ d = c
  <2>1. Stream(d)' = <<>> /\ server'[d] = "none"
    BY <1>7 DEF EndOfFile, RefuseLength, Ends, Stream, Typed
  <2>2. QED
    BY <1>2, <2>1
<1>8. CASE c \in Conns /\ ReadBody(c) /\ d = c
  <2>1. CASE ~Decodes(c)
    <3>1. Stream(d)' = <<>> /\ server'[d] = "none"
      BY <1>8, <2>1 DEF ReadBody, Stream, Typed
    <3>2. QED
      BY <1>2, <3>1
  <2>2. CASE Decodes(c)
    <3>1. Stream(d)' = Tail(buf[d]) /\ server[d] # "none"
      BY <1>8, <2>2 DEF ReadBody, Stream, Typed
    <3>2. /\ Framed(Tail(buf[d])) /\ (Odd(Tail(buf[d])) <=> Odd(Stream(d)))
          /\ Tail(buf[d]) # <<>> => Latest(Tail(buf[d])) = Latest(Stream(d))
      BY <1>8, StreamAtBody DEF ReadBody, Streams
    <3>3. Tail(buf[d]) # <<>> => Stream(d) # <<>>
      <4>1. Stream(d) \in Seq(Chunks) /\ Len(Stream(d)) = Len(buf[d]) + 1 /\ Len(buf[d]) \in Nat
        BY <1>8, StreamParts, LenProperties DEF ReadBody, Ends
      <4>2. QED
        BY <4>1, EmptySeq
    <3>4. Odd(Tail(buf[d])) => Tail(buf[d]) # <<>>
      BY FramedEmpty
    <3>5. QED
      BY <1>0, <3>1, <3>2, <3>3, <3>4 DEF Streams, Continues, Writes, InSend, Current
  <2>3. QED
    BY <2>1, <2>2
<1>9. QED
  BY <1>3, <1>4, <1>5, <1>6, <1>7, <1>8 DEF DaemonStep

-----------------------------------------------------------------------------
(* The whole frames of a buffer. *)

LEMMA WholeEmpty == WholeIn(<<>>) = {} /\ Distinct(<<>>)
BY EmptySeq DEF WholeIn, Distinct

LEMMA WholeAppend ==
  ASSUME NEW b \in Seq(Chunks), NEW e \in Chunks
  PROVE  /\ WholeIn(Append(b, e)) =
              WholeIn(b) \cup (IF e.part = "body" THEN {e.frame} ELSE {})
         /\ Distinct(b) /\ (e.part = "body" => e.frame \notin WholeIn(b)) =>
              Distinct(Append(b, e))
<1> DEFINE t == Append(b, e)
<1>1. /\ Len(b) \in Nat /\ DOMAIN b = 1 .. Len(b)
      /\ Len(t) = Len(b) + 1 /\ DOMAIN t = 1 .. Len(b) + 1
      /\ \A i \in 1 .. Len(b) : t[i] = b[i]
      /\ t[Len(b) + 1] = e
  BY AppendProperties, LenProperties
<1> HIDE DEF t
<1>2. \A i \in 1 .. Len(b) + 1 : i \in 1 .. Len(b) \/ i = Len(b) + 1
  BY <1>1
<1>3. ASSUME NEW f \in WholeIn(t)
      PROVE  f \in WholeIn(b) \/ (e.part = "body" /\ f = e.frame)
  <2>1. PICK i \in 1 .. Len(b) + 1 : t[i].part = "body" /\ f = t[i].frame
    BY <1>1, <1>3 DEF WholeIn
  <2>2. QED
    BY <1>1, <1>2, <2>1 DEF WholeIn
<1>4. ASSUME NEW f \in WholeIn(b)
      PROVE  f \in WholeIn(t)
  <2>1. PICK i \in 1 .. Len(b) : b[i].part = "body" /\ f = b[i].frame
    BY <1>1 DEF WholeIn
  <2>2. i \in DOMAIN t /\ t[i] = b[i]
    BY <1>1
  <2>3. QED
    BY <2>1, <2>2 DEF WholeIn
<1>5. e.part = "body" => e.frame \in WholeIn(t)
  <2>1. Len(b) + 1 \in DOMAIN t
    BY <1>1
  <2>2. QED
    BY <1>1, <2>1 DEF WholeIn
<1>6. ASSUME Distinct(b), e.part = "body" => e.frame \notin WholeIn(b),
             NEW i \in 1 .. Len(t), NEW j \in 1 .. Len(t),
             t[i].part = "body" /\ t[j].part = "body" /\ t[i].frame = t[j].frame
      PROVE  i = j
  <2>1. \A k \in 1 .. Len(b) : b[k].part = "body" => b[k].frame \in WholeIn(b)
    BY <1>1 DEF WholeIn
  <2>2. i \in 1 .. Len(b) \/ i = Len(b) + 1
    BY <1>1, <1>2
  <2>3. j \in 1 .. Len(b) \/ j = Len(b) + 1
    BY <1>1, <1>2
  <2>4. CASE i \in 1 .. Len(b) /\ j \in 1 .. Len(b)
    BY <1>1, <1>6, <2>4 DEF Distinct
  <2>5. QED
    BY <1>1, <1>6, <2>1, <2>2, <2>3, <2>4
<1>7. QED
  BY <1>3, <1>4, <1>5, <1>6 DEF t, Distinct

LEMMA WholeTail ==
  ASSUME NEW b \in Seq(Chunks), b # <<>>, Distinct(b)
  PROVE  /\ WholeIn(b) =
              WholeIn(Tail(b)) \cup (IF Head(b).part = "body" THEN {Head(b).frame} ELSE {})
         /\ Distinct(Tail(b))
         /\ Head(b).part = "body" => Head(b).frame \notin WholeIn(Tail(b))
<1> DEFINE t == Tail(b)
           e == Head(b)
<1>1. /\ Len(b) \in Nat \ {0} /\ DOMAIN b = 1 .. Len(b)
      /\ Len(t) = Len(b) - 1 /\ DOMAIN t = 1 .. Len(b) - 1
      /\ \A i \in 1 .. Len(b) - 1 : t[i] = b[i + 1]
      /\ e = b[1]
  BY HeadTailProperties, LenProperties, EmptySeq
<1> HIDE DEF t, e
<1>2. \A i \in 1 .. Len(b) - 1 : i + 1 \in 1 .. Len(b) /\ i + 1 # 1
  BY <1>1
<1>3. ASSUME NEW f \in WholeIn(b)
      PROVE  f \in WholeIn(t) \/ (e.part = "body" /\ f = e.frame)
  <2>1. PICK i \in 1 .. Len(b) : b[i].part = "body" /\ f = b[i].frame
    BY <1>1 DEF WholeIn
  <2>2. CASE i = 1
    BY <1>1, <2>1, <2>2
  <2>3. CASE i # 1
    <3>1. i - 1 \in 1 .. Len(b) - 1 /\ (i - 1) + 1 = i
      BY <1>1, <2>3
    <3>2. i - 1 \in DOMAIN t /\ t[i - 1] = b[i]
      BY <1>1, <3>1
    <3>3. QED
      BY <2>1, <3>2 DEF WholeIn
  <2>4. QED
    BY <2>2, <2>3
<1>4. ASSUME NEW f \in WholeIn(t)
      PROVE  \E i \in 1 .. Len(b) : i # 1 /\ b[i].part = "body" /\ f = b[i].frame
  <2>1. PICK i \in 1 .. Len(b) - 1 : t[i].part = "body" /\ f = t[i].frame
    BY <1>1 DEF WholeIn
  <2>2. QED
    BY <1>1, <1>2, <2>1
<1>5. \A i \in 1 .. Len(b) : b[i].part = "body" => b[i].frame \in WholeIn(b)
  BY <1>1 DEF WholeIn
<1>6. 1 \in 1 .. Len(b)
  BY <1>1
<1>7. WholeIn(b) = WholeIn(t) \cup (IF e.part = "body" THEN {e.frame} ELSE {})
  BY <1>1, <1>3, <1>4, <1>5, <1>6
<1>8. ASSUME e.part = "body", e.frame \in WholeIn(t)
      PROVE  FALSE
  <2>1. PICK i \in 1 .. Len(b) : i # 1 /\ b[i].part = "body" /\ e.frame = b[i].frame
    BY <1>4, <1>8
  <2>2. QED
    BY <1>1, <1>6, <1>8, <2>1 DEF Distinct
<1>9. ASSUME NEW i \in 1 .. Len(t), NEW j \in 1 .. Len(t),
             t[i].part = "body" /\ t[j].part = "body" /\ t[i].frame = t[j].frame
      PROVE  i = j
  <2>1. i \in 1 .. Len(b) - 1 /\ j \in 1 .. Len(b) - 1
    BY <1>1
  <2>2. /\ i + 1 \in 1 .. Len(b) /\ j + 1 \in 1 .. Len(b)
        /\ t[i] = b[i + 1] /\ t[j] = b[j + 1]
    BY <1>1, <1>2, <2>1
  <2>3. i + 1 = j + 1
    BY <1>9, <2>2 DEF Distinct
  <2>4. QED
    BY <2>3
<1>10. QED
  BY <1>7, <1>8, <1>9 DEF t, e, Distinct

-----------------------------------------------------------------------------
(* Fates. *)

LEMMA SettledType ==
  ASSUME Typed
  PROVE  Buffered \cup received \cup GivenUp \subseteq Frames
<1>1. Buffered \subseteq Frames
  BY WholeInType DEF Buffered, Typed
<1>2. QED
  BY <1>1 DEF GivenUp, Typed

(* The frame a process is sending has no fate yet. *)
LEMMA CurrentOpen ==
  ASSUME Typed, Descriptors, Fates, NEW p \in Procs, InSend(p)
  PROVE  Current(p) \in Frames /\ Current(p) \notin Buffered \cup received \cup GivenUp
<1>1. Current(p) \in Frames
  BY CurrentType DEF Descriptors
<1>2. ~Over(Current(p))
  BY ConstantsAssumption DEF Over, Current, Typed
<1>3. QED
  BY <1>1, <1>2 DEF Fates

(* A step that starts no new request keeps what is over over. *)
LEMMA OverStays ==
  ASSUME UNCHANGED req, \A r \in Procs : InSend(r)' => InSend(r), NEW f \in Frames, Over(f)
  PROVE  Over(f)'
<1>1. f[1] \in Procs
  BY DEF Frames
<1>2. QED
  BY <1>1 DEF Over

LEMMA FatesInit == Init => Fates
<1> SUFFICES ASSUME Init
             PROVE  Fates
  OBVIOUS
<1>1. \A c \in Conns : WholeIn(buf[c]) = {} /\ Distinct(buf[c])
  BY WholeEmpty DEF Init
<1>2. QED
  BY <1>1 DEF Init, Fates, Buffered, GivenUp

(* Steps that settle nothing. *)
LEMMA FatesQuiet ==
  ASSUME Typed, Fates, UNCHANGED <<req, buf, losses, received, refused, discarded, buried>>,
         \A r \in Procs : InSend(r)' => InSend(r)
  PROVE  Fates'
<1>1. Buffered' = Buffered /\ received' = received /\ GivenUp' = GivenUp
  BY DEF Buffered, GivenUp
<1>2. \A f \in Buffered \cup received \cup GivenUp : Over(f)'
  BY SettledType, OverStays DEF Fates
<1>3. QED
  BY <1>1, <1>2 DEF Fates

LEMMA FatesEndRequest ==
  ASSUME Typed, Fates, NEW p \in Procs, EndRequest(p)
  PROVE  Fates'
<1>1. Buffered' = Buffered /\ received' = received /\ GivenUp' = GivenUp /\ buf' = buf
  BY DEF EndRequest, Buffered, GivenUp, wireVars, fateVars
<1>2. ASSUME NEW f \in Frames, Over(f)
      PROVE  Over(f)'
  <2>1. f[1] \in Procs /\ f[2] \in Nat
    BY ConstantsAssumption DEF Frames
  <2>2. CASE f[1] = p
    <3>1. req'[p] = req[p] + 1 /\ req[p] \in Nat /\ f[2] <= req[p]
      BY <1>2, <2>1, <2>2, ConstantsAssumption DEF EndRequest, Over, Typed
    <3>2. QED
      BY <2>1, <2>2, <3>1 DEF Over
  <2>3. CASE f[1] # p
    BY <1>2, <2>1, <2>3 DEF EndRequest, Over, InSend, Typed
  <2>4. QED
    BY <2>2, <2>3
<1>3. \A f \in Buffered \cup received \cup GivenUp : Over(f)'
  BY <1>2, SettledType DEF Fates
<1>4. QED
  BY <1>1, <1>3 DEF Fates

(* The worker drops its frame, or dies with it. *)
LEMMA FatesDrop ==
  ASSUME Typed, Descriptors, Fates, NEW p \in Procs, ~InSend(p)',
         UNCHANGED <<req, buf, received, refused, discarded>>,
         \A r \in Procs : InSend(r)' => InSend(r),
         losses \cup buried \subseteq losses' \cup buried',
         losses' \cup buried' \subseteq
           losses \cup buried \cup (IF InSend(p) THEN {Current(p)} ELSE {})
  PROVE  Fates'
<1>1. Buffered' = Buffered /\ received' = received
  BY DEF Buffered
<1>2. GivenUp' = GivenUp \/ (InSend(p) /\ GivenUp' = GivenUp \cup {Current(p)})
  BY DEF GivenUp
<1>3. \A f \in Buffered \cup received \cup GivenUp : Over(f)'
  BY SettledType, OverStays DEF Fates
<1>4. Over(Current(p))'
  BY ConstantsAssumption DEF Over, Current, Typed
<1>5. InSend(p) => Current(p) \notin Buffered \cup received
  BY CurrentOpen
<1>6. Current(p)' = Current(p)
  BY DEF Current
<1>7. \A f \in Buffered' \cup received' \cup GivenUp' : Over(f)'
  BY <1>1, <1>2, <1>3, <1>4, <1>6
<1>8. Buffered' \cap (received' \cup GivenUp') = {} /\ received' \cap GivenUp' = {}
  BY <1>1, <1>2, <1>5 DEF Fates
<1>9. QED
  BY <1>7, <1>8 DEF Fates

LEMMA BufferedWrite ==
  ASSUME Typed, Descriptors, Fates, NEW p \in Procs, WriteChunk(p)
  PROVE  /\ Buffered' = Buffered \cup (IF off[p] = 0 THEN {} ELSE {Current(p)})
         /\ (\A c \in Conns : Distinct(buf[c]))'
         /\ (\A c, d \in Conns : c # d => WholeIn(buf[c]) \cap WholeIn(buf[d]) = {})'
<1> DEFINE c == fd[p]
           e == Chunk(Current(p), IF off[p] = 0 THEN "len" ELSE "body")
<1>1. c \in Conns /\ InSend(p)
  BY DEF WriteChunk, CanWrite, InSend, Typed
<1>2. Current(p) \in Frames /\ Current(p) \notin Buffered
  BY <1>1, CurrentOpen
<1>3. e \in Chunks /\ e.frame = Current(p) /\ (e.part = "body" <=> off[p] # 0)
  BY <1>2 DEF Chunk, Chunks
<1>4. buf' = [buf EXCEPT ![c] = Append(@, e)]
  BY DEF WriteChunk
<1> HIDE DEF c, e
<1>5. buf[c] \in Seq(Chunks) /\ Distinct(buf[c]) /\ buf \in [Conns -> Seq(Chunks)]
  BY <1>1 DEF Typed, Fates
<1>6. e.frame \notin WholeIn(buf[c])
  BY <1>1, <1>2, <1>3 DEF Buffered
<1>7. /\ buf'[c] = Append(buf[c], e)
      /\ \A d \in Conns : d # c => buf'[d] = buf[d]
  BY <1>1, <1>4, <1>5
<1>8. WholeIn(buf'[c]) = WholeIn(buf[c]) \cup (IF off[p] = 0 THEN {} ELSE {Current(p)})
  BY <1>3, <1>5, <1>7, WholeAppend
<1>9. Distinct(buf'[c])
  BY <1>3, <1>5, <1>6, <1>7, WholeAppend
<1>10. Buffered' = Buffered \cup (IF off[p] = 0 THEN {} ELSE {Current(p)})
  <2>1. \A f : f \in Buffered' <=> \E d \in Conns : f \in WholeIn(buf'[d])
    BY DEF Buffered
  <2>2. \A f : f \in Buffered <=> \E d \in Conns : f \in WholeIn(buf[d])
    BY DEF Buffered
  <2>3. QED
    BY <1>1, <1>7, <1>8, <2>1, <2>2
<1>11. \A d \in Conns : Distinct(buf'[d])
  BY <1>7, <1>9 DEF Fates
<1>12. ASSUME NEW d \in Conns, d # c
       PROVE  WholeIn(buf'[c]) \cap WholeIn(buf'[d]) = {}
  <2>1. Current(p) \notin WholeIn(buf[d])
    BY <1>2 DEF Buffered
  <2>2. QED
    BY <1>1, <1>7, <1>8, <1>12, <2>1 DEF Fates
<1>13. \A d, g \in Conns : d # g => WholeIn(buf'[d]) \cap WholeIn(buf'[g]) = {}
  BY <1>7, <1>12 DEF Fates
<1>14. QED
  BY <1>10, <1>11, <1>13

LEMMA FatesWrite ==
  ASSUME Typed, Descriptors, Fates, NEW p \in Procs, WriteChunk(p)
  PROVE  Fates'
<1>1. InSend(p)
  BY DEF WriteChunk, CanWrite, InSend
<1>2. /\ received' = received /\ GivenUp' = GivenUp /\ req' = req
      /\ \A r \in Procs : InSend(r)' => InSend(r)
      /\ off[p] # 0 => ~InSend(p)'
  BY DEF WriteChunk, CanWrite, InSend, GivenUp, fateVars, Typed
<1>3. \A f \in Buffered \cup received \cup GivenUp : Over(f)'
  BY <1>2, SettledType, OverStays DEF Fates
<1>4. off[p] # 0 => Over(Current(p))'
  BY <1>2, ConstantsAssumption DEF Over, Current, Typed
<1>5. Current(p)' = Current(p)
  BY <1>2 DEF Current
<1>6. Current(p) \notin received \cup GivenUp
  BY <1>1, CurrentOpen
<1>7. Buffered' = Buffered \cup (IF off[p] = 0 THEN {} ELSE {Current(p)})
  BY BufferedWrite
<1>8. \A f \in Buffered' \cup received' \cup GivenUp' : Over(f)'
  BY <1>2, <1>3, <1>4, <1>5, <1>7
<1>9. Buffered' \cap (received' \cup GivenUp') = {} /\ received' \cap GivenUp' = {}
  BY <1>2, <1>6, <1>7 DEF Fates
<1>10. QED
  BY <1>8, <1>9, BufferedWrite DEF Fates

(* A connection with less in it. *)
LEMMA BufferedShrinks ==
  ASSUME Typed, Fates, NEW c \in Conns, NEW x \in Seq(Chunks),
         buf' = [buf EXCEPT ![c] = x], Distinct(x), WholeIn(x) \subseteq WholeIn(buf[c])
  PROVE  /\ Buffered' = (Buffered \ WholeIn(buf[c])) \cup WholeIn(x)
         /\ (\A d \in Conns : Distinct(buf[d]))'
         /\ (\A d, g \in Conns : d # g => WholeIn(buf[d]) \cap WholeIn(buf[g]) = {})'
<1>1. buf'[c] = x /\ \A d \in Conns : d # c => buf'[d] = buf[d]
  BY DEF Typed
<1>2. \A d, g \in Conns : d # g => WholeIn(buf[d]) \cap WholeIn(buf[g]) = {}
  BY DEF Fates
<1>3. \A f : f \in Buffered' <=> \E d \in Conns : f \in WholeIn(buf'[d])
  BY DEF Buffered
<1>4. \A f : f \in Buffered <=> \E d \in Conns : f \in WholeIn(buf[d])
  BY DEF Buffered
<1>5. ASSUME NEW f \in Buffered'
      PROVE  f \in (Buffered \ WholeIn(buf[c])) \cup WholeIn(x)
  <2>1. PICK d \in Conns : f \in WholeIn(buf'[d])
    BY <1>3, <1>5
  <2>2. CASE d = c
    BY <1>1, <2>1, <2>2
  <2>3. CASE d # c
    BY <1>1, <1>2, <1>4, <2>1, <2>3
  <2>4. QED
    BY <2>2, <2>3
<1>6. ASSUME NEW f \in (Buffered \ WholeIn(buf[c])) \cup WholeIn(x)
      PROVE  f \in Buffered'
  BY <1>1, <1>3, <1>4, <1>6
<1>7. (\A d \in Conns : Distinct(buf[d]))'
  BY <1>1 DEF Fates
<1>8. (\A d, g \in Conns : d # g => WholeIn(buf[d]) \cap WholeIn(buf[g]) = {})'
  BY <1>1, <1>2
<1>9. QED
  BY <1>5, <1>6, <1>7, <1>8

(* What the daemon does to the frames that were sent: it moves them from   *)
(* the buffers to one of the fates it gives, and forgets none.             *)
Moves(rest, taken, bad) ==
  /\ Buffered' = rest
  /\ received' = received \cup taken
  /\ refused' \cup discarded' = refused \cup discarded \cup bad
  /\ Buffered = rest \cup taken \cup bad
  /\ rest \cap taken = {} /\ rest \cap bad = {}
  /\ taken = {} \/ bad = {}

LEMMA MovesReadLength ==
  ASSUME Typed, Ends, Streams, Fates, NEW c \in Conns, ReadLength(c)
  PROVE  /\ Moves(Buffered, {}, {})
         /\ (\A d \in Conns : Distinct(buf[d]))'
         /\ (\A d, g \in Conns : d # g => WholeIn(buf[d]) \cap WholeIn(buf[g]) = {})'
<1>1. buf[c] \in Seq(Chunks) /\ buf[c] # <<>> /\ Tail(buf[c]) \in Seq(Chunks)
  BY BufferHead DEF ReadLength, Typed
<1>2. Head(buf[c]).part # "body"
  <2>1. Stream(c) = buf[c] /\ Framed(buf[c])
    BY DEF ReadLength, Ends, Stream, Streams
  <2>2. 1 \in 1 .. Len(buf[c]) /\ 1 % 2 # 0 /\ Head(buf[c]) = buf[c][1]
    BY <1>1, BufferHead
  <2>3. QED
    BY <2>1, <2>2 DEF Framed
<1>3. WholeIn(Tail(buf[c])) = WholeIn(buf[c]) /\ Distinct(Tail(buf[c]))
  <2>1. Distinct(buf[c])
    BY DEF Fates
  <2>2. /\ WholeIn(buf[c]) = WholeIn(Tail(buf[c]))
                \cup (IF Head(buf[c]).part = "body" THEN {Head(buf[c]).frame} ELSE {})
        /\ Distinct(Tail(buf[c]))
    BY <1>1, <2>1, WholeTail, Zenon
  <2>3. QED
    BY <1>2, <2>2
<1>4. WholeIn(buf[c]) \subseteq Buffered
  BY DEF Buffered
<1>5. buf' = [buf EXCEPT ![c] = Tail(buf[c])]
  BY DEF ReadLength
<1>6. Buffered' = (Buffered \ WholeIn(buf[c])) \cup WholeIn(Tail(buf[c]))
  BY <1>1, <1>3, <1>5, BufferedShrinks
<1>7. QED
  BY <1>1, <1>3, <1>4, <1>5, <1>6, BufferedShrinks DEF Moves, ReadLength, fateVars

LEMMA MovesReadBody ==
  ASSUME Typed, Ends, Streams, Fates, NEW c \in Conns, ReadBody(c)
  PROVE  /\ want[c] \in Frames /\ want[c] \in Buffered
         /\ Decodes(c) => Moves(Buffered \ {want[c]}, {want[c]}, {})
         /\ ~Decodes(c) => Moves(Buffered \ WholeIn(buf[c]), {}, WholeIn(buf[c]))
         /\ (\A d \in Conns : Distinct(buf[d]))'
         /\ (\A d, g \in Conns : d # g => WholeIn(buf[d]) \cap WholeIn(buf[g]) = {})'
<1>1. buf[c] \in Seq(Chunks) /\ buf[c] # <<>> /\ Tail(buf[c]) \in Seq(Chunks) /\ <<>> \in Seq(Chunks)
  BY BufferHead, EmptySeq DEF ReadBody, Typed
<1>2. Head(buf[c]) = Chunk(want[c], "body") /\ want[c] \in Frames
  BY StreamAtBody DEF ReadBody, Streams
<1>3. Head(buf[c]).part = "body" /\ Head(buf[c]).frame = want[c]
  BY <1>2 DEF Chunk
<1>4. /\ WholeIn(buf[c]) = WholeIn(Tail(buf[c])) \cup {want[c]}
      /\ want[c] \notin WholeIn(Tail(buf[c])) /\ Distinct(Tail(buf[c]))
  BY <1>1, <1>3, WholeTail DEF Fates
<1>5. WholeIn(buf[c]) \subseteq Buffered
  BY DEF Buffered
<1>6. CASE Decodes(c)
  <2>1. buf' = [buf EXCEPT ![c] = Tail(buf[c])]
    BY <1>6 DEF ReadBody
  <2>2. Buffered' = (Buffered \ WholeIn(buf[c])) \cup WholeIn(Tail(buf[c]))
    BY <1>1, <1>4, <2>1, BufferedShrinks
  <2>3. Moves(Buffered \ {want[c]}, {want[c]}, {})
    BY <1>4, <1>5, <1>6, <2>2 DEF Moves, ReadBody
  <2>4. QED
    BY <1>1, <1>2, <1>4, <1>5, <1>6, <2>1, <2>3, BufferedShrinks
<1>7. CASE ~Decodes(c)
  <2>1. buf' = [buf EXCEPT ![c] = <<>>]
    BY <1>7 DEF ReadBody
  <2>2. Buffered' = Buffered \ WholeIn(buf[c])
    BY <1>1, <2>1, BufferedShrinks, WholeEmpty
  <2>3. refused' \cup discarded' = refused \cup discarded \cup WholeIn(buf[c]) /\ received' = received
    BY <1>3, <1>4, <1>7 DEF ReadBody
  <2>4. Moves(Buffered \ WholeIn(buf[c]), {}, WholeIn(buf[c]))
    BY <1>5, <2>2, <2>3 DEF Moves
  <2>5. QED
    BY <1>1, <1>2, <1>4, <1>5, <1>7, <2>1, <2>4, BufferedShrinks, WholeEmpty
<1>8. QED
  BY <1>6, <1>7

LEMMA MovesRefuseLength ==
  ASSUME Typed, Fates, NEW c \in Conns, RefuseLength(c)
  PROVE  /\ Moves(Buffered \ WholeIn(buf[c]), {}, WholeIn(buf[c]))
         /\ (\A d \in Conns : Distinct(buf[d]))'
         /\ (\A d, g \in Conns : d # g => WholeIn(buf[d]) \cap WholeIn(buf[g]) = {})'
<1>1. <<>> \in Seq(Chunks)
  BY EmptySeq
<1>2. buf' = [buf EXCEPT ![c] = <<>>]
  BY DEF RefuseLength
<1>3. Buffered' = Buffered \ WholeIn(buf[c])
  BY <1>1, <1>2, BufferedShrinks, WholeEmpty
<1>4. WholeIn(buf[c]) \subseteq Buffered
  BY DEF Buffered
<1>5. refused' \cup discarded' = refused \cup discarded \cup WholeIn(buf[c]) /\ received' = received
  BY DEF RefuseLength
<1>6. Moves(Buffered \ WholeIn(buf[c]), {}, WholeIn(buf[c]))
  BY <1>3, <1>4, <1>5 DEF Moves
<1>7. QED
  BY <1>1, <1>2, <1>6, BufferedShrinks, WholeEmpty

LEMMA MovesDaemonEnds ==
  ASSUME DaemonEnds
  PROVE  /\ Moves({}, {}, Buffered)
         /\ (\A d \in Conns : Distinct(buf[d]))'
         /\ (\A d, g \in Conns : d # g => WholeIn(buf[d]) \cap WholeIn(buf[g]) = {})'
<1>1. \A d \in Conns : buf'[d] = <<>>
  BY DEF DaemonEnds
<1>2. Buffered' = {}
  BY <1>1, WholeEmpty DEF Buffered
<1>3. QED
  BY <1>1, <1>2, WholeEmpty DEF Moves, DaemonEnds

(* Every step of the daemon moves frames, or leaves them where they are.   *)
LEMMA MovesDaemon ==
  ASSUME Typed, Ends, Streams, Fates, NEW c, DaemonStep(c)
  PROVE  /\ \E rest, taken, bad \in SUBSET Frames : Moves(rest, taken, bad)
         /\ (\A d \in Conns : Distinct(buf[d]))'
         /\ (\A d, g \in Conns : d # g => WholeIn(buf[d]) \cap WholeIn(buf[g]) = {})'
<1>0. Buffered \subseteq Frames
  BY SettledType
<1>1. CASE (c \in Conns /\ (Accept(c) \/ EndOfFile(c))) \/ DaemonStarts
  <2>1. UNCHANGED <<buf, received, refused, discarded>>
    BY <1>1 DEF Accept, EndOfFile, DaemonStarts, wireVars, fateVars
  <2>2. Moves(Buffered, {}, {})
    BY <2>1 DEF Moves, Buffered
  <2>3. QED
    BY <1>0, <2>1, <2>2 DEF Fates
<1>2. CASE c \in Conns /\ ReadLength(c)
  BY <1>0, <1>2, MovesReadLength
<1>3. CASE c \in Conns /\ ReadBody(c)
  <2>1. WholeIn(buf[c]) \subseteq Frames /\ Buffered \ WholeIn(buf[c]) \subseteq Frames
    BY <1>0, <1>3, WholeInType DEF Typed
  <2>2. \E rest, taken, bad \in SUBSET Frames : Moves(rest, taken, bad)
    <3>1. CASE Decodes(c)
      BY <1>0, <1>3, <3>1, MovesReadBody
    <3>2. CASE ~Decodes(c)
      BY <1>0, <1>3, <2>1, <3>2, MovesReadBody
    <3>3. QED
      BY <3>1, <3>2
  <2>3. QED
    BY <1>3, <2>2, MovesReadBody
<1>4. CASE DaemonEnds
  BY <1>0, <1>4, MovesDaemonEnds
<1>5. CASE c \in Conns /\ RefuseLength(c)
  <2>1. WholeIn(buf[c]) \subseteq Frames /\ Buffered \ WholeIn(buf[c]) \subseteq Frames
    BY <1>0, <1>5, WholeInType DEF Typed
  <2>2. QED
    BY <1>5, <2>1, MovesRefuseLength
<1>6. QED
  BY <1>1, <1>2, <1>3, <1>4, <1>5 DEF DaemonStep

LEMMA FatesDaemon ==
  ASSUME Typed, Ends, Streams, Fates, NEW c, DaemonStep(c)
  PROVE  Fates' /\ Sent' = Sent
<1>1. UNCHANGED <<state, req, losses, buried>>
  BY DEF DaemonStep, Accept, ReadLength, RefuseLength, ReadBody, EndOfFile, DaemonEnds, DaemonStarts, procVars, fateVars
<1>2. PICK rest \in SUBSET Frames, taken \in SUBSET Frames, bad \in SUBSET Frames :
             Moves(rest, taken, bad)
  BY MovesDaemon
<1>3. \A f \in Buffered \cup received \cup GivenUp : Over(f)'
  BY <1>1 DEF Fates, Over, InSend
<1>4. Buffered' \cup received' \cup GivenUp' = Buffered \cup received \cup GivenUp
  BY <1>1, <1>2 DEF Moves, GivenUp
<1>5. Buffered' \cap (received' \cup GivenUp') = {} /\ received' \cap GivenUp' = {}
  <2>1. /\ Buffered' = rest /\ received' = received \cup taken
        /\ GivenUp' = GivenUp \cup bad /\ Buffered = rest \cup taken \cup bad
    BY <1>1, <1>2 DEF Moves, GivenUp
  <2>2. rest \cap taken = {} /\ rest \cap bad = {} /\ taken \cap bad = {}
    BY <1>2 DEF Moves
  <2>3. Buffered \cap (received \cup GivenUp) = {} /\ received \cap GivenUp = {}
    BY DEF Fates
  <2>4. QED
    BY <2>1, <2>2, <2>3
<1>6. Sent' = Sent
  BY <1>2 DEF Moves, Sent
<1>7. (\A f \in Buffered \cup received \cup GivenUp : Over(f))'
  BY <1>3, <1>4
<1>8. QED
  BY <1>5, <1>6, <1>7, MovesDaemon DEF Fates

-----------------------------------------------------------------------------
(* The counters of losses. *)

(* The union of a family of sets. *)
Total(g, I) == UNION {g[i] : i \in I}

LEMMA TotalMember ==
  ASSUME NEW g, NEW I
  PROVE  \A x : x \in Total(g, I) <=> \E i \in I : x \in g[i]
BY DEF Total

LEMMA ForgottenTotal ==
  NothingForgotten <=>
    losses = Total(dropped, Procs) \cup Total(declares, Sent) \cup (buried \cap losses)
BY Zenon DEF NothingForgotten, Total

LEMMA CountersInit == Init => Counters
<1> SUFFICES ASSUME Init
             PROVE  Counters
  OBVIOUS
<1>1. Sent = {} /\ \A p \in Procs : ~InSend(p)
  BY WholeEmpty DEF Init, Sent, Buffered, InSend
<1>2. QED
  BY <1>1 DEF Init, Counters, LossesConserved, NothingForgotten, LossDeclaredOnce

(* Steps that neither drop a frame nor send one. *)
LEMMA CountersQuiet ==
  ASSUME Counters, Sent' = Sent, UNCHANGED <<req, dropped, declares, losses, buried>>,
         \A p \in Procs : /\ InSend(p)' => InSend(p)
                          /\ state'[p] = "unborn" => state[p] = "unborn"
  PROVE  Counters'
BY DEF Counters, LossesConserved, NothingForgotten, LossDeclaredOnce, Current

LEMMA CountersEndRequest ==
  ASSUME Typed, Descriptors, Fates, Counters, NEW p \in Procs, EndRequest(p)
  PROVE  Counters'
<1> DEFINE n == <<p, req[p] + 1>>
<1>1. n \in Frames /\ n \notin Sent
  <2>1. req[p] \in Nat /\ req[p] + 1 \in 1 .. MaxReq
    BY ConstantsAssumption DEF EndRequest, Typed
  <2>2. ~Over(n)
    BY <2>1 DEF Over
  <2>3. QED
    BY <2>1, <2>2, FrameType DEF Fates, Sent, GivenUp
<1>2. /\ Sent' = Sent /\ UNCHANGED <<dropped, losses, buried>>
      /\ declares'[n] = dropped[p] /\ \A f \in Frames : f # n => declares'[f] = declares[f]
      /\ Current(p)' = n /\ \A q \in Procs : q # p => Current(q)' = Current(q)
      /\ \A q \in Procs : q # p => state'[q] = state[q]
      /\ state'[p] = "sending"
  BY <1>1 DEF EndRequest, Sent, Buffered, Current, wireVars, fateVars, Typed
<1> HIDE DEF n
<1>3. \A f \in Sent : f \in Frames /\ f # n /\ declares'[f] = declares[f]
  BY <1>1, <1>2, SettledType DEF Sent, GivenUp
<1>4. LossesConserved'
  <2>1. NothingForgotten'
    BY <1>2, <1>3 DEF Counters, LossesConserved, NothingForgotten
  <2>2. LossDeclaredOnce'
    BY <1>2, <1>3 DEF Counters, LossesConserved, LossDeclaredOnce
  <2>3. QED
    BY <2>1, <2>2 DEF LossesConserved
<1>5. \A q \in Procs : InSend(q)' => declares'[Current(q)'] = dropped'[q]
  <2>1. ASSUME NEW q \in Procs, InSend(q)', q # p
        PROVE  declares'[Current(q)'] = dropped'[q]
    <3>1. InSend(q)
      BY <1>2, <2>1 DEF InSend
    <3>2. Current(q) \in Frames /\ Current(q) # n
      BY <2>1, <3>1, CurrentType DEF Descriptors, Current, n
    <3>3. QED
      BY <1>2, <2>1, <3>1, <3>2 DEF Counters
  <2>2. QED
    BY <1>2, <2>1
<1>6. QED
  BY <1>2, <1>4, <1>5 DEF Counters

LEMMA CountersDrop ==
  ASSUME Typed, Descriptors, Fates, Counters, NEW p \in Procs, InSend(p), Drop(p),
         UNCHANGED <<req, declares, buf, received, refused, discarded, buried>>
  PROVE  Counters'
<1>1. Current(p) \in Frames /\ Current(p) \notin GivenUp
  BY CurrentOpen
<1>2. /\ Sent' = Sent /\ losses' = losses \cup {Current(p)} /\ dropped'[p] = dropped[p] \cup {Current(p)}
      /\ \A q \in Procs : q # p => dropped'[q] = dropped[q] /\ state'[q] = state[q]
      /\ state'[p] = "idle"
  BY DEF Drop, CountsOneMore, Sent, Buffered, Typed
<1>3. \A g \in Frames : Current(p) \notin declares[g]
  BY <1>1 DEF Counters, GivenUp
<1>4. Sent \subseteq Frames
  BY SettledType DEF Sent, GivenUp
<1>5. \A g \in Sent : g[1] \in Procs
  BY <1>4 DEF Frames
<1>6. \A q \in Procs : Current(q)' = Current(q)
  BY DEF Current
<1>7. NothingForgotten'
  <2>1. losses = Total(dropped, Procs) \cup Total(declares, Sent) \cup (buried \cap losses)
    BY ForgottenTotal DEF Counters, LossesConserved
  <2>2. Total(dropped', Procs) = Total(dropped, Procs) \cup {Current(p)}
    <3>1. dropped'[p] = dropped[p] \cup {Current(p)} /\ \A q \in Procs : q # p => dropped'[q] = dropped[q]
      BY <1>2
    <3>2. \A x : x \in Total(dropped', Procs) <=> x \in Total(dropped, Procs) \/ x = Current(p)
      BY <3>1, TotalMember
    <3>3. QED
      BY <3>2
  <2>3. Current(p) \notin buried
    BY <1>1 DEF GivenUp
  <2>4. losses' = Total(dropped', Procs) \cup Total(declares', Sent') \cup (buried' \cap losses')
    BY <1>2, <2>1, <2>2, <2>3
  <2>5. QED
    BY <2>4, Zenon DEF NothingForgotten, Total
<1>8. LossDeclaredOnce'
  <2>1. ASSUME NEW g \in Sent
        PROVE  declares[g] \cap dropped'[g[1]] = {}
    BY <1>2, <1>3, <1>4, <1>5 DEF Counters, LossesConserved, LossDeclaredOnce
  <2>2. QED
    BY <1>2, <2>1 DEF Counters, LossesConserved, LossDeclaredOnce
<1>9. \A q \in Procs : InSend(q)' => declares'[Current(q)'] = dropped'[q]
  BY <1>2, <1>6 DEF Counters, InSend
<1>10. QED
  BY <1>2, <1>7, <1>8, <1>9 DEF Counters, LossesConserved

LEMMA CountersWrite ==
  ASSUME Typed, Descriptors, Fates, Counters, NEW p \in Procs, WriteChunk(p)
  PROVE  Counters'
<1>0. InSend(p) /\ Current(p) \in Frames /\ Current(p) \notin Sent
  BY CurrentOpen DEF WriteChunk, CanWrite, InSend, Sent, GivenUp
<1>1. UNCHANGED <<req, declares, losses, received, refused, discarded, buried>>
  BY DEF WriteChunk, fateVars
<1>2. Sent \subseteq Frames /\ \A g \in Sent : g[1] \in Procs
  BY SettledType DEF Sent, GivenUp, Frames
<1>3. CASE off[p] = 0
  <2>1. dropped' = dropped /\ state' = state
    BY <1>3 DEF WriteChunk, Typed
  <2>2. Sent' = Sent
    BY <1>1, <1>3, BufferedWrite DEF Sent
  <2>3. QED
    BY <1>1, <2>1, <2>2, CountersQuiet DEF InSend
<1>4. CASE off[p] # 0
  <2>1. Sent' = Sent \cup {Current(p)}
    BY <1>1, <1>4, BufferedWrite DEF Sent
  <2>2. /\ dropped'[p] = {} /\ state'[p] = "idle"
        /\ \A q \in Procs : q # p => dropped'[q] = dropped[q] /\ state'[q] = state[q]
    BY <1>4 DEF WriteChunk, AfterSuccess, Typed
  <2>3. declares[Current(p)] = dropped[p]
    BY <1>0 DEF Counters
  <2>4. Current(p)[1] = p
    BY DEF Current
  <2>5. \A q \in Procs : Current(q)' = Current(q)
    BY <1>1 DEF Current
  <2>6. NothingForgotten'
    <3>1. Total(dropped, Procs) = Total(dropped', Procs) \cup dropped[p]
      <4>1. \A x : x \in Total(dropped, Procs) <=> x \in Total(dropped', Procs) \/ x \in dropped[p]
        BY <2>2, TotalMember
      <4>2. QED
        BY <4>1
    <3>2. Total(declares, Sent') = Total(declares, Sent) \cup dropped[p]
      <4>1. \A x : x \in Total(declares, Sent') <=> x \in Total(declares, Sent) \/ x \in dropped[p]
        BY <2>1, <2>3, TotalMember
      <4>2. QED
        BY <4>1
    <3>3. losses = Total(dropped, Procs) \cup Total(declares, Sent) \cup (buried \cap losses)
      BY ForgottenTotal DEF Counters, LossesConserved
    <3>4. losses' = Total(dropped', Procs) \cup Total(declares', Sent') \cup (buried' \cap losses')
      BY <1>1, <3>1, <3>2, <3>3
    <3>5. QED
      BY <3>4, Zenon DEF NothingForgotten, Total
  <2>7. LossDeclaredOnce'
    <3>1. LossDeclaredOnce
      BY DEF Counters, LossesConserved
    <3>2. ASSUME NEW g \in Sent'
          PROVE  declares[g] \cap dropped'[g[1]] = {}
      BY <1>2, <2>1, <2>2, <2>4, <3>1, <3>2 DEF LossDeclaredOnce
    <3>3. ASSUME NEW g \in Sent', NEW h \in Sent', g[1] = h[1], g # h
          PROVE  declares[g] \cap declares[h] = {}
      <4>1. CASE g \in Sent /\ h \in Sent
        BY <3>1, <3>3, <4>1 DEF LossDeclaredOnce
      <4>2. CASE g = Current(p) /\ h \in Sent
        BY <2>3, <2>4, <3>1, <3>3, <4>2 DEF LossDeclaredOnce
      <4>3. CASE h = Current(p) /\ g \in Sent
        BY <2>3, <2>4, <3>1, <3>3, <4>3 DEF LossDeclaredOnce
      <4>4. QED
        BY <2>1, <3>3, <4>1, <4>2, <4>3
    <3>4. QED
      BY <1>1, <3>2, <3>3 DEF LossDeclaredOnce
  <2>8. \A q \in Procs : InSend(q)' => declares'[Current(q)'] = dropped'[q]
    BY <1>1, <2>2, <2>5 DEF Counters, InSend
  <2>9. QED
    BY <1>1, <2>2, <2>6, <2>7, <2>8 DEF Counters, LossesConserved
<1>5. QED
  BY <1>3, <1>4

LEMMA CountersFork ==
  ASSUME Typed, Descriptors, Fates, Counters, NEW p \in Procs, NEW q \in Procs, Fork(p, q)
  PROVE  Counters'
<1>1. /\ Sent' = Sent /\ UNCHANGED <<req, declares, losses, buried>>
      /\ dropped'[q] = dropped[p] /\ dropped[q] = {} /\ p # q
      /\ \A r \in Procs : r # q => dropped'[r] = dropped[r] /\ state'[r] = state[r]
      /\ state'[q] = "idle" /\ state[q] = "unborn"
  BY DEF Fork, Sent, Buffered, fateVars, Counters, Typed
<1>2. \A f \in Sent : f \in Frames /\ f[1] \in Procs /\ f[1] # q
  <2>1. ASSUME NEW f \in Sent
        PROVE  f \in Frames /\ Over(f)
    BY <2>1, SettledType DEF Sent, GivenUp, Fates
  <2>2. req[q] = 0
    BY <1>1 DEF Descriptors
  <2>3. \A f \in Frames : f[1] \in Procs /\ f[2] \in 1 .. MaxReq
    BY DEF Frames
  <2>4. ASSUME NEW f \in Sent, f[1] = q
        PROVE  FALSE
    BY <2>1, <2>2, <2>3, <2>4, ConstantsAssumption DEF Over
  <2>5. QED
    BY <2>1, <2>3, <2>4
<1>3. NothingForgotten'
  <2>1. UNION {dropped'[r] : r \in Procs} = UNION {dropped[r] : r \in Procs}
    BY <1>1
  <2>2. QED
    BY <1>1, <2>1 DEF Counters, LossesConserved, NothingForgotten
<1>4. LossDeclaredOnce'
  BY <1>1, <1>2 DEF Counters, LossesConserved, LossDeclaredOnce
<1>5. \A r \in Procs : InSend(r)' => declares'[Current(r)'] = dropped'[r]
  BY <1>1 DEF Counters, InSend, Current
<1>6. QED
  BY <1>1, <1>3, <1>4, <1>5 DEF Counters, LossesConserved

LEMMA CountersDie ==
  ASSUME Typed, Descriptors, Fates, Counters, NEW p \in Procs, Die(p)
  PROVE  Counters'
<1>1. /\ Sent' = Sent /\ UNCHANGED <<req, declares, losses>>
      /\ dropped'[p] = {}
      /\ \A r \in Procs : r # p => dropped'[r] = dropped[r] /\ state'[r] = state[r]
      /\ state'[p] = "dead" /\ dropped[p] \subseteq losses
      /\ buried' = buried \cup dropped[p] \cup (IF InSend(p) THEN {Current(p)} ELSE {})
  BY DEF Die, Sent, Buffered, Counters, Typed
<1>2. InSend(p) => Current(p) \notin losses
  BY CurrentOpen DEF GivenUp
<1>3. NothingForgotten'
  <2>1. Total(dropped, Procs) = Total(dropped', Procs) \cup dropped[p]
    <3>1. \A x : x \in Total(dropped, Procs) <=> x \in Total(dropped', Procs) \/ x \in dropped[p]
      BY <1>1, TotalMember
    <3>2. QED
      BY <3>1
  <2>2. buried' \cap losses = (buried \cap losses) \cup dropped[p]
    BY <1>1, <1>2
  <2>3. losses = Total(dropped, Procs) \cup Total(declares, Sent) \cup (buried \cap losses)
    BY ForgottenTotal DEF Counters, LossesConserved
  <2>4. losses' = Total(dropped', Procs) \cup Total(declares', Sent') \cup (buried' \cap losses')
    BY <1>1, <2>1, <2>2, <2>3
  <2>5. QED
    BY <2>4, Zenon DEF NothingForgotten, Total
<1>4. LossDeclaredOnce'
  <2>1. \A r \in Procs : dropped'[r] \subseteq dropped[r]
    BY <1>1
  <2>2. \A f \in Sent : f[1] \in Procs
    BY SettledType DEF Sent, GivenUp, Frames
  <2>3. LossDeclaredOnce
    BY DEF Counters, LossesConserved
  <2>4. QED
    BY <1>1, <2>1, <2>2, <2>3 DEF LossDeclaredOnce
<1>5. \A r \in Procs : InSend(r)' => declares'[Current(r)'] = dropped'[r]
  BY <1>1 DEF Counters, InSend, Current
<1>6. QED
  BY <1>1, <1>3, <1>4, <1>5 DEF Counters, LossesConserved

-----------------------------------------------------------------------------
(* The inductive invariant, step by step. *)

(* A frame handle finds truncated is one its worker has given up, or one   *)
(* too long for it.                                                        *)
LEMMA TruncatedEndOfFile ==
  ASSUME Typed, Descriptors, Ends, Streams, NEW c \in Conns, EndOfFile(c),
         truncated \subseteq losses \cup buried \cup Large
  PROVE  truncated' \subseteq losses' \cup buried' \cup Large
<1>1. losses' = losses /\ buried' = buried
  BY DEF EndOfFile
<1>2. ASSUME server[c] = "body"
      PROVE  want[c] \in losses \cup buried
  <2>1. want[c] # None /\ buf[c] = <<>> /\ holders[c] = {}
    BY <1>2 DEF EndOfFile, Ends
  <2>2. /\ Stream(c) \in Seq(Chunks) /\ Len(Stream(c)) = 1
        /\ Stream(c)[1] = Chunk(want[c], "len")
    <3>1. Len(buf[c]) = 0
      BY <2>1, EmptySeq
    <3>2. /\ Stream(c) \in Seq(Chunks) /\ Len(Stream(c)) = Len(buf[c]) + 1
          /\ Stream(c)[1] = Chunk(want[c], "len")
      BY <2>1, StreamParts
    <3>3. QED
      BY <3>1, <3>2
  <2>3. Odd(Stream(c)) /\ Latest(Stream(c)) = want[c]
    BY <2>2 DEF Odd, Latest, Chunk
  <2>4. \A p \in Procs : ~Writes(p, c)
    BY <2>1, ConstantsAssumption DEF Writes, Descriptors
  <2>5. QED
    BY <2>3, <2>4 DEF Streams
<1>3. QED
  BY <1>1, <1>2 DEF EndOfFile

(* The ways an unfinished transmission ends badly. *)
Drops(p) == ConnectFails(p) \/ WriteTimeout(p) \/ (WriteError(p) /\ attempt[p] # 1)

(* The steps of the sender that change no counter and no buffer. *)
Tries(p) ==
  \/ \E c \in Conns : Connect(p, c)
  \/ WouldBlock(p) \/ PollReady(p)
  \/ WriteError(p) /\ attempt[p] = 1

LEMMA DropsStep ==
  ASSUME NEW p \in Procs, Typed, Drops(p)
  PROVE  /\ Drop(p) /\ InSend(p) /\ ~InSend(p)'
         /\ \A r \in Procs : r # p => state'[r] = state[r]
         /\ UNCHANGED <<req, declares, server, want, buf, daemon,
                        received, refused, truncated, discarded, buried>>
BY DEF Drops, ConnectFails, WriteTimeout, BudgetExpires, WriteError, CanWrite, Drop, InSend,
       wireVars, Typed

LEMMA TriesStep ==
  ASSUME NEW p \in Procs, Typed, Tries(p)
  PROVE  /\ \A r \in Procs : /\ InSend(r)' <=> InSend(r)
                             /\ state'[r] = "unborn" => state[r] = "unborn"
         /\ UNCHANGED <<req, dropped, declares, buf, daemon, fateVars>>
BY DEF Tries, Connect, WouldBlock, PollReady, WriteError, CanWrite, InSend, wireVars, fateVars, Typed

LEMMA NextCases ==
  ASSUME Next
  PROVE  \/ \E p \in Procs : \/ EndRequest(p) \/ Drops(p) \/ Tries(p) \/ WriteChunk(p)
                            \/ Die(p) \/ \E q \in Procs : Fork(p, q)
         \/ \E c : DaemonStep(c)
BY DEF Next, Sender, Drops, Tries, DaemonStep

LEMMA InvInit == Init => IInv
<1>1. Init => truncated \subseteq losses \cup buried \cup Large
  BY DEF Init
<1>2. QED
  BY <1>1, TypedInit, DescriptorsInit, EndsInit, StreamsInit, FatesInit, CountersInit DEF IInv

LEMMA InvEndRequest ==
  ASSUME IInv, NEW p \in Procs, EndRequest(p)
  PROVE  IInv'
<1>1. UNCHANGED <<server, want, buf, truncated, losses, buried>>
  BY DEF EndRequest, wireVars, fateVars
<1>2. QED
  BY <1>1, TypedEndRequest, DescriptorsOthers, EndsOthers, StreamsEndRequest, FatesEndRequest,
     CountersEndRequest DEF IInv

LEMMA InvDrops ==
  ASSUME IInv, NEW p \in Procs, Drops(p)
  PROVE  IInv'
<1>1. Typed' /\ Descriptors' /\ Ends'
  BY TypedSender, DescriptorsSender, EndsSender DEF IInv, Drops, Sender
<1>2. Streams'
  BY StreamsConnect, StreamsClose DEF IInv, Drops
<1>3. /\ Drop(p) /\ InSend(p) /\ ~InSend(p)'
      /\ \A r \in Procs : r # p => state'[r] = state[r]
      /\ UNCHANGED <<req, declares, server, want, buf, daemon,
                     received, refused, truncated, discarded, buried>>
  BY DropsStep DEF IInv
<1>4. losses' = losses \cup {Current(p)}
  BY <1>3 DEF Drop
<1>5. \A r \in Procs : InSend(r)' => InSend(r)
  BY <1>3 DEF InSend
<1>6. Fates'
  BY <1>3, <1>4, <1>5, FatesDrop DEF IInv
<1>7. Counters'
  BY <1>3, CountersDrop DEF IInv
<1>8. truncated' \subseteq losses' \cup buried' \cup Large
  BY <1>3, <1>4 DEF IInv
<1>9. QED
  BY <1>1, <1>2, <1>6, <1>7, <1>8 DEF IInv

LEMMA InvTries ==
  ASSUME IInv, NEW p \in Procs, Tries(p)
  PROVE  IInv'
<1>1. Typed' /\ Descriptors' /\ Ends'
  BY TypedSender, DescriptorsSender, EndsSender DEF IInv, Tries, Sender
<1>2. Streams'
  BY StreamsConnect, StreamsClose, StreamsWait DEF IInv, Tries
<1>3. /\ \A r \in Procs : /\ InSend(r)' <=> InSend(r)
                          /\ state'[r] = "unborn" => state[r] = "unborn"
      /\ UNCHANGED <<req, dropped, declares, buf, daemon, fateVars>>
  BY TriesStep DEF IInv
<1>4. Sent' = Sent /\ truncated' \subseteq losses' \cup buried' \cup Large
  BY <1>3 DEF IInv, Sent, Buffered, fateVars
<1>5. Fates'
  BY <1>3, FatesQuiet DEF IInv, fateVars
<1>6. Counters'
  BY <1>3, <1>4, CountersQuiet DEF IInv, fateVars
<1>7. QED
  BY <1>1, <1>2, <1>4, <1>5, <1>6 DEF IInv

LEMMA InvWrite ==
  ASSUME IInv, NEW p \in Procs, WriteChunk(p)
  PROVE  IInv'
<1>1. Typed' /\ Descriptors' /\ Ends'
  BY TypedSender, DescriptorsSender, EndsSender DEF IInv, Sender
<1>2. truncated' \subseteq losses' \cup buried' \cup Large
  BY DEF IInv, WriteChunk, fateVars
<1>3. QED
  BY <1>1, <1>2, StreamsWrite, FatesWrite, CountersWrite DEF IInv

LEMMA InvFork ==
  ASSUME IInv, NEW p \in Procs, NEW q \in Procs, Fork(p, q)
  PROVE  IInv'
<1>1. UNCHANGED <<req, server, want, buf, losses, received, refused, truncated, discarded, buried>>
  BY DEF Fork, fateVars
<1>2. \A r \in Procs : InSend(r)' => InSend(r)
  BY DEF IInv, Typed, Fork, InSend
<1>3. Fates'
  BY <1>1, <1>2, FatesQuiet DEF IInv
<1>4. QED
  BY <1>1, <1>3, TypedProcess, DescriptorsOthers, EndsOthers, StreamsProcess, CountersFork DEF IInv

LEMMA InvDie ==
  ASSUME IInv, NEW p \in Procs, Die(p)
  PROVE  IInv'
<1>1. UNCHANGED <<req, server, want, buf, losses, received, refused, truncated, discarded>>
  BY DEF Die
<1>2. ~InSend(p)' /\ \A r \in Procs : InSend(r)' => InSend(r)
  BY DEF IInv, Typed, Die, InSend
<1>3. buried' = buried \cup dropped[p] \cup (IF InSend(p) THEN {Current(p)} ELSE {})
  BY DEF Die
<1>4. dropped[p] \subseteq losses
  BY DEF IInv, Counters
<1>5. Fates'
  BY <1>1, <1>2, <1>3, <1>4, FatesDrop DEF IInv
<1>6. truncated' \subseteq losses' \cup buried' \cup Large
  BY <1>1, <1>3 DEF IInv
<1>7. QED
  BY <1>1, <1>5, <1>6, TypedProcess, DescriptorsOthers, EndsOthers, StreamsProcess, CountersDie DEF IInv

LEMMA InvDaemon ==
  ASSUME IInv, NEW c, DaemonStep(c)
  PROVE  IInv'
<1>1. UNCHANGED <<procVars, holders, losses, buried>>
  BY DEF DaemonStep, Accept, ReadLength, RefuseLength, ReadBody, EndOfFile, DaemonEnds, DaemonStarts,
         wireVars, fateVars
<1>2. Fates' /\ Sent' = Sent
  BY FatesDaemon DEF IInv
<1>3. Counters'
  BY <1>1, <1>2, CountersQuiet DEF IInv, procVars, InSend
<1>4. truncated' \subseteq losses' \cup buried' \cup Large
  <2>1. CASE c \in Conns /\ EndOfFile(c)
    BY <2>1, TruncatedEndOfFile DEF IInv
  <2>2. CASE c \in Conns /\ RefuseLength(c)
    BY <1>1, <2>2 DEF RefuseLength, RefusesLength, IInv
  <2>3. CASE ~(c \in Conns /\ (EndOfFile(c) \/ RefuseLength(c)))
    <3>1. truncated' = truncated
      BY <2>3 DEF DaemonStep, Accept, ReadLength, ReadBody, DaemonEnds, DaemonStarts, fateVars
    <3>2. QED
      BY <1>1, <3>1 DEF IInv
  <2>4. QED
    BY <2>1, <2>2, <2>3
<1>5. QED
  BY <1>1, <1>2, <1>3, <1>4, TypedDaemon, DescriptorsDaemon, EndsDaemon, StreamsDaemon DEF IInv

LEMMA InvStutter ==
  ASSUME IInv, UNCHANGED vars
  PROVE  IInv'
<1>1. UNCHANGED <<procVars, wireVars, daemon, fateVars>>
  BY DEF vars
<1>2. Typed'
  BY <1>1 DEF IInv, Typed, procVars, wireVars, fateVars
<1>3. Descriptors' /\ Ends'
  BY <1>1, DescriptorsDaemon, EndsOthers DEF IInv, wireVars
<1>4. Streams'
  BY <1>1 DEF IInv, Streams, Stream, Continues, Writes, InSend, Current, procVars, wireVars, fateVars
<1>5. Fates' /\ Sent' = Sent
  BY <1>1, FatesQuiet DEF IInv, Sent, Buffered, InSend, procVars, wireVars, fateVars
<1>6. Counters'
  BY <1>1, <1>5, CountersQuiet DEF IInv, InSend, procVars, fateVars
<1>7. QED
  BY <1>1, <1>2, <1>3, <1>4, <1>5, <1>6 DEF IInv, fateVars

LEMMA InvNext == IInv /\ [Next]_vars => IInv'
<1> SUFFICES ASSUME IInv, [Next]_vars
             PROVE  IInv'
  OBVIOUS
<1>1. CASE Next
  BY <1>1, NextCases, InvEndRequest, InvDrops, InvTries, InvWrite, InvFork, InvDie, InvDaemon
<1>2. CASE UNCHANGED vars
  BY <1>2, InvStutter
<1>3. QED
  BY <1>1, <1>2

LEMMA InvAlways == Spec => []IInv
BY InvInit, InvNext, PTL DEF Spec

-----------------------------------------------------------------------------
(* The theorems. *)

(* The types of the state: in particular every descriptor a worker has is  *)
(* of a connection, and a socket buffer holds chunks of frames.            *)
THEOREM TypeCorrect == Spec => []Typed
BY InvAlways, PTL DEF IInv

(* On every connection the bytes are whole frames of one process, in the   *)
(* order of its requests, only the last maybe unfinished, for every number *)
(* of processes, forks, retries and restarts: the check of sock_pid and    *)
(* the restart from the first byte of orma_sender_send, and the two        *)
(* io.ReadFull of handle.                                                  *)
THEOREM StreamsAreFramed == Spec => []StreamsFramed
<1>1. IInv => StreamsFramed
  <2> SUFFICES ASSUME IInv, NEW c \in Conns
               PROVE  /\ Framed(Stream(c))
                      /\ DOMAIN Stream(c) = 1 .. Len(Stream(c))
    BY DEF StreamsFramed, Framed
  <2>1. Stream(c) \in Seq(Chunks)
    BY StreamParts DEF IInv
  <2>2. QED
    BY <2>1, LenProperties DEF IInv, Streams
<1>2. QED
  BY <1>1, InvAlways, PTL

(* What the workers count, the delivered frames declare and the dead took  *)
(* along is what was lost, and no loss is declared twice by one worker     *)
(* (orma_sender_drop, the reset after a success, the copy a fork makes).   *)
THEOREM LossesAreConserved == Spec => []LossesConserved
<1>1. IInv => LossesConserved
  BY DEF IInv, Counters
<1>2. QED
  BY <1>1, InvAlways, PTL

(* Listener.rejected counts a whole frame only when it is longer than      *)
(* MaxFrameSize or the daemon speaks another version, and a partial one    *)
(* only when it is longer or its worker gave it up: the two reads of       *)
(* handle never lose the place in a stream.                                *)
THEOREM RejectionsAreExplained == Spec => RejectionsExplained
<1>1. IInv /\ IInv' /\ [Next]_vars =>
        [/\ refused' \subseteq refused \cup Large \/ daemon = "upgraded"
         /\ truncated' \subseteq losses' \cup buried' \cup Large]_vars
  <2> SUFFICES ASSUME IInv, IInv', Next, ~(refused' \subseteq refused \cup Large)
               PROVE  daemon = "upgraded"
    BY DEF IInv
  <2>1. PICK c \in Conns : (ReadBody(c) /\ ~Decodes(c)) \/ RefuseLength(c)
    BY DEF Next, EndRequest, Sender, Connect, ConnectFails, WriteChunk, WouldBlock, PollReady,
           WriteTimeout, WriteError, Fork, Die, Accept, ReadLength, RefuseLength, ReadBody,
           EndOfFile, DaemonEnds, DaemonStarts, fateVars
  <2>2. ~RefuseLength(c)
    BY DEF RefuseLength, RefusesLength
  <2>3. Head(buf[c]) = Chunk(want[c], "body")
    BY <2>1, <2>2, StreamAtBody DEF IInv, Streams, ReadBody
  <2>4. QED
    BY <2>1, <2>2, <2>3 DEF Decodes
<1>2. QED
  BY <1>1, InvAlways, PTL DEF Spec, RejectionsExplained

-----------------------------------------------------------------------------
(* The refinement of the ledger. *)

(* The frames in the hands of their processes, and the two piles. *)
Sending == {Current(p) : p \in {q \in Procs : InSend(q)}}
Gone == losses \cup refused \cup discarded \cup buried

LEMMA LedgerState ==
  L!vars = <<Sending \cup Buffered, received, Gone>>
BY DEF L!vars, Sending, Gone

(* What is being sent is neither sent nor lost. *)
LEMMA SendingOpen ==
  ASSUME IInv
  PROVE  /\ Sending \subseteq Frames
         /\ Sending \cap (Buffered \cup received \cup Gone) = {}
BY CurrentOpen DEF IInv, Sending, Gone, GivenUp

(* A process that stops sending takes its own frame out of those in hand.  *)
LEMMA SendingEnds ==
  ASSUME NEW p \in Procs, InSend(p), ~InSend(p)', UNCHANGED req,
         \A r \in Procs : r # p => state'[r] = state[r]
  PROVE  Current(p) \in Sending /\ Sending' = Sending \ {Current(p)}
<1>1. \A r \in Procs : Current(r)' = Current(r) /\ (Current(r) = Current(p) => r = p)
  BY DEF Current
<1>2. \A r \in Procs : r # p => (InSend(r)' <=> InSend(r))
  BY DEF InSend
<1>3. \A x : x \in Sending <=> \E r \in Procs : InSend(r) /\ x = Current(r)
  BY DEF Sending
<1>4. \A x : x \in Sending' <=> \E r \in Procs : InSend(r)' /\ x = Current(r)'
  BY DEF Sending
<1>5. QED
  BY <1>1, <1>2, <1>3, <1>4

LEMMA SendingStays ==
  ASSUME UNCHANGED req, \A r \in Procs : InSend(r)' <=> InSend(r)
  PROVE  Sending' = Sending
<1>1. \A r \in Procs : Current(r)' = Current(r)
  BY DEF Current
<1>2. \A x : x \in Sending <=> \E r \in Procs : InSend(r) /\ x = Current(r)
  BY DEF Sending
<1>3. \A x : x \in Sending' <=> \E r \in Procs : InSend(r)' /\ x = Current(r)'
  BY DEF Sending
<1>4. QED
  BY <1>1, <1>2, <1>3

LEMMA LedgerInit == Init => L!Init
<1> SUFFICES ASSUME Init
             PROVE  L!Init
  OBVIOUS
<1>1. Buffered = {} /\ \A p \in Procs : ~InSend(p)
  BY WholeEmpty DEF Init, Buffered, InSend
<1>2. QED
  BY <1>1 DEF Init, L!Init

(* The end of a request accepts its frame. *)
LEMMA LedgerEndRequest ==
  ASSUME IInv, NEW p \in Procs, EndRequest(p)
  PROVE  L!Next
<1> DEFINE n == <<p, req[p] + 1>>
<1>1. n \in Frames /\ ~Over(n)
  BY ConstantsAssumption, FrameType DEF IInv, EndRequest, Typed, Over
<1>2. n \notin Buffered \cup received \cup Gone
  BY <1>1 DEF IInv, Fates, Gone, GivenUp
<1>3. /\ Current(p)' = n /\ InSend(p)' /\ ~InSend(p)
      /\ \A r \in Procs : r # p => Current(r)' = Current(r) /\ (InSend(r)' <=> InSend(r))
  BY DEF EndRequest, InSend, Current, IInv, Typed
<1>4. UNCHANGED <<received, Gone, Buffered>>
  BY DEF EndRequest, Gone, Buffered, wireVars, fateVars
<1>5. \A x : x \in Sending <=> \E r \in Procs : InSend(r) /\ x = Current(r)
  BY DEF Sending
<1>6. \A x : x \in Sending' <=> \E r \in Procs : InSend(r)' /\ x = Current(r)'
  BY DEF Sending
<1>7. n \notin Sending
  <2>1. \A r \in Procs : Current(r) = n => r = p
    BY DEF Current
  <2>2. QED
    BY <1>3, <1>5, <2>1
<1> HIDE DEF n
<1>8. Sending' = Sending \cup {n}
  BY <1>3, <1>5, <1>6
<1>9. L!Accept(n)
  BY <1>2, <1>4, <1>7, <1>8 DEF L!Accept, Sending, Gone
<1>10. QED
  BY <1>1, <1>9 DEF L!Next

(* A frame its process drops, or takes along when it dies, is lost.        *)
LEMMA LedgerLose ==
  ASSUME IInv, NEW p \in Procs, InSend(p), ~InSend(p)',
         \A r \in Procs : r # p => state'[r] = state[r],
         UNCHANGED <<req, buf, received>>, Gone' = Gone \cup {Current(p)}
  PROVE  L!Next
<1>1. Current(p) \in Sending /\ Sending' = Sending \ {Current(p)}
  BY SendingEnds
<1>2. Current(p) \in Frames /\ Current(p) \notin Buffered
  BY <1>1, SendingOpen
<1>3. Buffered' = Buffered
  BY DEF Buffered
<1>4. /\ {Current(p)} \subseteq Sending \cup Buffered
      /\ Sending' \cup Buffered' = (Sending \cup Buffered) \ {Current(p)}
  BY <1>1, <1>2, <1>3
<1>5. L!Lose({Current(p)})
  BY <1>4 DEF L!Lose, Sending, Gone
<1>6. QED
  BY <1>2, <1>5 DEF L!Next

(* A frame that is written stays pending, in the socket. *)
LEMMA LedgerWrite ==
  ASSUME IInv, NEW p \in Procs, WriteChunk(p)
  PROVE  UNCHANGED <<Sending \cup Buffered, received, Gone>>
<1>1. received' = received /\ Gone' = Gone /\ req' = req
  BY DEF WriteChunk, Gone, fateVars
<1>2. Buffered' = Buffered \cup (IF off[p] = 0 THEN {} ELSE {Current(p)})
  BY BufferedWrite DEF IInv
<1>3. InSend(p) /\ off[p] \in {0, 1}
  BY DEF WriteChunk, CanWrite, InSend, IInv, Typed
<1>4. CASE off[p] = 0
  <2>1. \A r \in Procs : InSend(r)' <=> InSend(r)
    BY <1>4 DEF WriteChunk, InSend, IInv, Typed
  <2>2. Sending' = Sending
    BY <1>1, <2>1, SendingStays
  <2>3. QED
    BY <1>1, <1>2, <1>4, <2>2
<1>5. CASE off[p] = 1
  <2>1. ~InSend(p)' /\ \A r \in Procs : r # p => state'[r] = state[r]
    BY <1>5 DEF WriteChunk, InSend, IInv, Typed
  <2>2. Current(p) \in Sending /\ Sending' = Sending \ {Current(p)}
    BY <1>1, <1>3, <2>1, SendingEnds
  <2>3. QED
    BY <1>1, <1>2, <1>5, <2>2
<1>6. QED
  BY <1>3, <1>4, <1>5

(* The daemon settles what it takes out of the sockets. *)
LEMMA LedgerDaemon ==
  ASSUME IInv, NEW c, DaemonStep(c)
  PROVE  L!Next \/ UNCHANGED <<Sending \cup Buffered, received, Gone>>
<1>1. UNCHANGED <<state, req, losses, buried>>
  BY DEF DaemonStep, Accept, ReadLength, RefuseLength, ReadBody, EndOfFile, DaemonEnds, DaemonStarts,
         procVars, fateVars
<1>2. Sending' = Sending
  BY <1>1, SendingStays DEF InSend
<1>3. PICK rest \in SUBSET Frames, taken \in SUBSET Frames, bad \in SUBSET Frames :
             Moves(rest, taken, bad)
  BY MovesDaemon DEF IInv
<1>4. /\ Buffered' = rest /\ received' = received \cup taken
      /\ Gone' = Gone \cup bad
      /\ Buffered = rest \cup taken \cup bad
      /\ rest \cap taken = {} /\ rest \cap bad = {}
      /\ taken = {} \/ bad = {}
  BY <1>1, <1>3 DEF Moves, Gone
<1>5. Sending \cap Buffered = {}
  BY SendingOpen
<1>6. CASE taken = {} /\ bad = {}
  BY <1>2, <1>4, <1>6
<1>7. CASE taken # {} /\ bad = {}
  <2>1. /\ taken \subseteq Sending \cup Buffered /\ Gone' = Gone
        /\ Sending' \cup Buffered' = (Sending \cup Buffered) \ taken
    BY <1>2, <1>4, <1>5, <1>7
  <2>2. L!Persist(taken)
    BY <1>4, <1>7, <2>1 DEF L!Persist, Sending, Gone
  <2>3. QED
    BY <2>2 DEF L!Next
<1>8. CASE taken = {} /\ bad # {}
  <2>1. /\ bad \subseteq Sending \cup Buffered /\ received' = received
        /\ Sending' \cup Buffered' = (Sending \cup Buffered) \ bad
    BY <1>2, <1>4, <1>5, <1>8
  <2>2. L!Lose(bad)
    BY <1>4, <1>8, <2>1 DEF L!Lose, Sending, Gone
  <2>3. QED
    BY <2>2 DEF L!Next
<1>9. QED
  BY <1>4, <1>6, <1>7, <1>8

LEMMA LedgerNext == IInv /\ [Next]_vars => [L!Next]_(L!vars)
<1> SUFFICES ASSUME IInv, [Next]_vars
             PROVE  L!Next \/ UNCHANGED <<Sending \cup Buffered, received, Gone>>
  BY LedgerState DEF L!vars, Sending, Gone
<1>1. ASSUME NEW p \in Procs, Drops(p)
      PROVE  L!Next
  <2>1. /\ Drop(p) /\ InSend(p) /\ ~InSend(p)'
        /\ \A r \in Procs : r # p => state'[r] = state[r]
        /\ UNCHANGED <<req, declares, server, want, buf, daemon,
                       received, refused, truncated, discarded, buried>>
    BY <1>1, DropsStep DEF IInv
  <2>2. Gone' = Gone \cup {Current(p)}
    BY <2>1 DEF Drop, Gone
  <2>3. QED
    BY <2>1, <2>2, LedgerLose
<1>2. ASSUME NEW p \in Procs, Tries(p)
      PROVE  UNCHANGED <<Sending \cup Buffered, received, Gone>>
  <2>1. /\ \A r \in Procs : InSend(r)' <=> InSend(r)
        /\ UNCHANGED <<req, dropped, declares, buf, daemon, fateVars>>
    BY <1>2, TriesStep DEF IInv
  <2>2. Sending' = Sending
    BY <2>1, SendingStays
  <2>3. QED
    BY <2>1, <2>2 DEF Buffered, Gone, fateVars
<1>3. ASSUME NEW p \in Procs, NEW q \in Procs, Fork(p, q)
      PROVE  UNCHANGED <<Sending \cup Buffered, received, Gone>>
  <2>1. /\ \A r \in Procs : InSend(r)' <=> InSend(r)
        /\ UNCHANGED <<req, buf, fateVars>>
    BY <1>3 DEF Fork, InSend, IInv, Typed
  <2>2. Sending' = Sending
    BY <2>1, SendingStays
  <2>3. QED
    BY <2>1, <2>2 DEF Buffered, Gone, fateVars
<1>4. ASSUME NEW p \in Procs, Die(p)
      PROVE  L!Next \/ UNCHANGED <<Sending \cup Buffered, received, Gone>>
  <2>1. /\ ~InSend(p)' /\ \A r \in Procs : r # p => state'[r] = state[r]
        /\ UNCHANGED <<req, buf, received, losses, refused, discarded>>
        /\ buried' = buried \cup dropped[p] \cup (IF InSend(p) THEN {Current(p)} ELSE {})
    BY <1>4 DEF Die, InSend, IInv, Typed
  <2>2. dropped[p] \subseteq losses
    BY DEF IInv, Counters
  <2>3. CASE InSend(p)
    <3>1. Gone' = Gone \cup {Current(p)}
      BY <2>1, <2>2, <2>3 DEF Gone
    <3>2. QED
      BY <2>1, <2>3, <3>1, LedgerLose
  <2>4. CASE ~InSend(p)
    <3>1. Gone' = Gone
      BY <2>1, <2>2, <2>4 DEF Gone
    <3>2. \A r \in Procs : InSend(r)' <=> InSend(r)
      BY <2>1, <2>4 DEF InSend
    <3>3. Sending' = Sending
      BY <2>1, <3>2, SendingStays
    <3>4. QED
      BY <2>1, <3>1, <3>3 DEF Buffered
  <2>5. QED
    BY <2>3, <2>4
<1>5. CASE UNCHANGED vars
  <2>1. UNCHANGED <<procVars, wireVars, fateVars>>
    BY <1>5 DEF vars
  <2>2. Sending' = Sending
    BY <2>1, SendingStays DEF InSend, procVars
  <2>3. QED
    BY <2>1, <2>2 DEF Buffered, Gone, wireVars, fateVars
<1>6. CASE Next
  BY <1>1, <1>2, <1>3, <1>4, <1>6, NextCases, LedgerEndRequest, LedgerWrite, LedgerDaemon
<1>7. QED
  BY <1>5, <1>6

(* Every frame is settled once: received by the daemon or lost, whatever   *)
(* the sender, the processes and the daemon do.  A frame that was received *)
(* is never counted as lost, and a lost one never received.                *)
THEOREM ImplementsLedger == Spec => LedgerSpec
BY LedgerInit, LedgerNext, InvAlways, PTL DEF Spec, LedgerSpec, L!Spec
=============================================================================
