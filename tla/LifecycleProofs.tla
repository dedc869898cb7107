--------------------------- MODULE LifecycleProofs ---------------------------
(***************************************************************************)
(* Proofs about Lifecycle, for any set of pids.                            *)
(***************************************************************************)
EXTENDS Lifecycle, TLAPS

(* Between the check of the pidfile and its writing. *)
Taking(p) == pc[p] \in {"clearing", "creating", "writing"}

(* The socket of p answers, or will in a moment. *)
Bound(p) == pc[p] \in {"chmod", "wiring", "serving"}

(* Where the socket file may still be p's. *)
MayOwn(p) == Bound(p) \/ pc[p] \in {"stopping", "failing", "closing"}

(* While starts do not overlap, whoever is past Acquire owns the pidfile,  *)
(* and with it the right to touch the socket.                              *)
Exclusive ==
  /\ \A p, q \in Pids : pc[p] \in Starting /\ pc[q] \in Starting => p = q
  /\ \A p \in Pids : Holds(p) => pidfile = p
  /\ \A p \in Pids : Taking(p) => \A q \in Pids : ~Holds(q)
  /\ \A p \in Pids : pc[p] = "writing" => pidfile = Empty
  /\ \A p \in Pids : Bound(p) => sock = p
  /\ \A p \in Pids : sock = p => MayOwn(p)
  /\ pidfile \in Pids => maker = pidfile
  /\ \A p \in Pids : pc[p] = "creating" => pidfile \notin Pids
  /\ \A p \in Pids : pc[p] = "exiting" => maker # p
  /\ \A p \in Pids : pc[p] = "unwritten" /\ maker = p => pidfile = Empty
  /\ command = "purge" => Quiet /\ \A p \in Pids : ~Holds(p)

IInv == TypeOK /\ (~overlap => Exclusive)
-----------------------------------------------------------------------------
(* Type correctness. *)

(* The initial state is well typed. *)
LEMMA TypeInit == Init => TypeOK
BY DEF Init, TypeOK

(* Every step of an instance or of a command keeps the types. *)
LEMMA TypeNext == TypeOK /\ [Next]_vars => TypeOK'
<1> SUFFICES ASSUME TypeOK, [Next]_vars
             PROVE  TypeOK'
  OBVIOUS
<1> USE ConstantsAssumption DEF TypeOK, Goto, fileVars, cmdVars, Starting, Ending, Exiting
<1>1. ASSUME NEW p \in Pids, Start(p)
      PROVE  TypeOK'
  BY <1>1 DEF Start, Begin
<1>2. ASSUME NEW p \in Pids, Respawn(p)
      PROVE  TypeOK'
  BY <1>2 DEF Respawn, Begin
<1>3. ASSUME NEW p \in Pids, AcquireRead(p)
      PROVE  TypeOK'
  BY <1>3 DEF AcquireRead, Held, Running
<1>4. ASSUME NEW p \in Pids, AcquireRemove(p)
      PROVE  TypeOK'
  BY <1>4 DEF AcquireRemove
<1>5. ASSUME NEW p \in Pids, AcquireCreate(p)
      PROVE  TypeOK'
  BY <1>5 DEF AcquireCreate
<1>6. ASSUME NEW p \in Pids, AcquireWrite(p)
      PROVE  TypeOK'
  BY <1>6 DEF AcquireWrite
<1>7. ASSUME NEW p \in Pids, StoreFails(p)
      PROVE  TypeOK'
  BY <1>7 DEF StoreFails
<1>8. ASSUME NEW p \in Pids, OpenProbe(p)
      PROVE  TypeOK'
  BY <1>8 DEF OpenProbe
<1>9. ASSUME NEW p \in Pids, OpenRemove(p)
      PROVE  TypeOK'
  BY <1>9 DEF OpenRemove
<1>10. ASSUME NEW p \in Pids, OpenListen(p)
      PROVE  TypeOK'
  BY <1>10 DEF OpenListen
<1>11. ASSUME NEW p \in Pids, OpenPermissions(p)
      PROVE  TypeOK'
  BY <1>11 DEF OpenPermissions, PermissionsFail
<1>12. ASSUME NEW p \in Pids, Wire(p)
      PROVE  TypeOK'
  BY <1>12 DEF Wire
<1>13. ASSUME NEW p \in Pids, ServerFails(p)
      PROVE  TypeOK'
  BY <1>13 DEF ServerFails
<1>14. ASSUME NEW p \in Pids, ServeEnds(p)
      PROVE  TypeOK'
  BY <1>14 DEF ServeEnds
<1>15. ASSUME NEW p \in Pids, Stopped(p)
      PROVE  TypeOK'
  BY <1>15 DEF Stopped
<1>16. ASSUME NEW p \in Pids, CloseSocket(p)
      PROVE  TypeOK'
  BY <1>16 DEF CloseSocket, After
<1>17. ASSUME NEW p \in Pids, Release(p)
      PROVE  TypeOK'
  BY <1>17 DEF Release, After
<1>18. ASSUME NEW p \in Pids, End(p)
      PROVE  TypeOK'
  BY <1>18 DEF End, Dies
<1>19. ASSUME NEW p \in Pids, Kill(p)
      PROVE  TypeOK'
  BY <1>19 DEF Kill, Dies, Running
<1>20. ASSUME NEW p \in Pids, OtherProgram(p)
      PROVE  TypeOK'
  BY <1>20 DEF OtherProgram
<1>21. ASSUME NEW kind \in {"stop", "restart"}, Signal(kind)
      PROVE  TypeOK'
  BY <1>21 DEF Signal, Dies, Uncaught, Running
<1>22. CASE Reload
  BY <1>22 DEF Reload, Dies, Uncaught, Running
<1>23. CASE NothingToStop
  BY <1>23 DEF NothingToStop, Running
<1>24. CASE StopDone
  BY <1>24 DEF StopDone, Waited, Running
<1>25. CASE StopTimeout
  BY <1>25 DEF StopTimeout, Running
<1>26. CASE Purge
  BY <1>26 DEF Purge, PurgeRefused, Running
<1>27. CASE PurgeRemoves
  BY <1>27 DEF PurgeRemoves
<1>28. CASE UNCHANGED vars
  BY <1>28 DEF vars
<1> QED
  BY <1>1, <1>2, <1>3, <1>4, <1>5, <1>6, <1>7, <1>8, <1>9, <1>10, <1>11, <1>12, <1>13, <1>14,
     <1>15, <1>16, <1>17, <1>18, <1>19, <1>20, <1>21, <1>22, <1>23, <1>24, <1>25, <1>26, <1>27, <1>28
  DEF Next, Acquire, Open

(* Every reachable state of the files, the processes and the commands is   *)
(* well typed, for any set of pids.                                        *)
THEOREM TypeCorrect == Spec => []TypeOK
BY TypeInit, TypeNext, PTL DEF Spec

-----------------------------------------------------------------------------
(* One owner of the pidfile. *)

(* At the start nobody owns anything. *)
LEMMA ExclusiveInit == Init => Exclusive
BY ConstantsAssumption
   DEF Init, Exclusive, Quiet, Starting, Ending, Holds, Taking, Bound, MayOwn

(* The pidfile changes hands only when its owner is gone; the socket, only *)
(* by the hand of the owner of the pidfile.                                *)
LEMMA ExclusiveNext ==
  ASSUME TypeOK, TypeOK', ~overlap, Exclusive, [Next]_vars
  PROVE  Exclusive'
<1> USE ConstantsAssumption DEF TypeOK, Exclusive, Quiet, Holds, Taking, Bound, MayOwn,
      Starting, Ending, Exiting, Goto, fileVars, cmdVars
<1>1. ASSUME NEW p \in Pids, Start(p)
      PROVE  Exclusive'
  BY <1>1 DEF Start, Begin
<1>2. ASSUME NEW p \in Pids, Respawn(p)
      PROVE  Exclusive'
  BY <1>2 DEF Respawn, Begin
<1>3. ASSUME NEW p \in Pids, AcquireRead(p)
      PROVE  Exclusive'
  BY <1>3 DEF AcquireRead, Held, Running
<1>4. ASSUME NEW p \in Pids, AcquireRemove(p)
      PROVE  Exclusive'
  BY <1>4 DEF AcquireRemove
<1>5. ASSUME NEW p \in Pids, AcquireCreate(p)
      PROVE  Exclusive'
  BY <1>5 DEF AcquireCreate
<1>6. ASSUME NEW p \in Pids, AcquireWrite(p)
      PROVE  Exclusive'
  BY <1>6 DEF AcquireWrite
<1>7. ASSUME NEW p \in Pids, StoreFails(p)
      PROVE  Exclusive'
  BY <1>7 DEF StoreFails
<1>8. ASSUME NEW p \in Pids, OpenProbe(p)
      PROVE  Exclusive'
  BY <1>8 DEF OpenProbe
<1>9. ASSUME NEW p \in Pids, OpenRemove(p)
      PROVE  Exclusive'
  BY <1>9 DEF OpenRemove
<1>10. ASSUME NEW p \in Pids, OpenListen(p)
      PROVE  Exclusive'
  BY <1>10 DEF OpenListen
<1>11. ASSUME NEW p \in Pids, OpenPermissions(p)
      PROVE  Exclusive'
  BY <1>11 DEF OpenPermissions, PermissionsFail
<1>12. ASSUME NEW p \in Pids, Wire(p)
      PROVE  Exclusive'
  BY <1>12 DEF Wire
<1>13. ASSUME NEW p \in Pids, ServerFails(p)
      PROVE  Exclusive'
  BY <1>13 DEF ServerFails
<1>14. ASSUME NEW p \in Pids, ServeEnds(p)
      PROVE  Exclusive'
  BY <1>14 DEF ServeEnds
<1>15. ASSUME NEW p \in Pids, Stopped(p)
      PROVE  Exclusive'
  BY <1>15 DEF Stopped
<1>16. ASSUME NEW p \in Pids, CloseSocket(p)
      PROVE  Exclusive'
  BY <1>16 DEF CloseSocket, After
<1>17. ASSUME NEW p \in Pids, Release(p)
      PROVE  Exclusive'
  BY <1>17 DEF Release, After
<1>18. ASSUME NEW p \in Pids, End(p)
      PROVE  Exclusive'
  BY <1>18 DEF End, Dies
<1>19. ASSUME NEW p \in Pids, Kill(p)
      PROVE  Exclusive'
  BY <1>19 DEF Kill, Dies, Running
<1>20. ASSUME NEW p \in Pids, OtherProgram(p)
      PROVE  Exclusive'
  BY <1>20 DEF OtherProgram
<1>21. ASSUME NEW kind \in {"stop", "restart"}, Signal(kind)
      PROVE  Exclusive'
  BY <1>21 DEF Signal, Dies, Uncaught, Running
<1>22. CASE Reload
  BY <1>22 DEF Reload, Dies, Uncaught, Running
<1>23. CASE NothingToStop
  BY <1>23 DEF NothingToStop, Running
<1>24. CASE StopDone
  BY <1>24 DEF StopDone, Waited, Running
<1>25. CASE StopTimeout
  BY <1>25 DEF StopTimeout, Running
<1>26. CASE Purge
  BY <1>26 DEF Purge, PurgeRefused, Running
<1>27. CASE PurgeRemoves
  BY <1>27 DEF PurgeRemoves
<1>28. CASE UNCHANGED vars
  BY <1>28 DEF vars
<1> QED
  BY <1>1, <1>2, <1>3, <1>4, <1>5, <1>6, <1>7, <1>8, <1>9, <1>10, <1>11, <1>12, <1>13, <1>14,
     <1>15, <1>16, <1>17, <1>18, <1>19, <1>20, <1>21, <1>22, <1>23, <1>24, <1>25, <1>26, <1>27, <1>28
  DEF Next, Acquire, Open

(* Whether starts overlap is not decided by the program. *)
LEMMA OverlapStays == [Next]_vars => overlap' = overlap
  BY DEF Next, Acquire, Open, vars, Start, Respawn, AcquireRead,
    AcquireRemove, AcquireCreate, AcquireWrite, StoreFails, OpenProbe,
    OpenRemove, OpenListen, OpenPermissions, Wire, ServerFails, ServeEnds,
    Stopped, CloseSocket, Release, End, Kill, OtherProgram, Signal, Reload,
    NothingToStop, StopDone, StopTimeout, Purge, PurgeRemoves

(* The invariant holds in every reachable state. *)
LEMMA IInvAlways == Spec => []IInv
<1>1. Init => IInv
  BY TypeInit, ExclusiveInit DEF IInv
<1>2. IInv /\ [Next]_vars => IInv'
  BY TypeNext, ExclusiveNext, OverlapStays DEF IInv
<1>3. QED
  BY <1>1, <1>2, PTL DEF Spec

(* Two instances never run together unless their starts overlap: both      *)
(* would own the one pidfile.                                              *)
THEOREM InstanceIsAlone == Spec => []OneInstance
<1>1. IInv => OneInstance
  BY DEF IInv, Exclusive, OneInstance
<1>2. QED
  BY <1>1, IInvAlways, PTL

(* The instance that serves owns the pidfile and the socket. *)
THEOREM ServingIsReachable == Spec => []Reachable
<1>1. IInv => Reachable
  BY DEF IInv, Exclusive, Reachable, Holds, Bound
<1>2. QED
  BY <1>1, IInvAlways, PTL

(* An instance that ends by itself leaves neither file of its own, except  *)
(* the empty pidfile it could not write.                                   *)
THEOREM EndIsClean == Spec => []CleanEnd
<1>1. IInv => CleanEnd
  BY DEF IInv, Exclusive, CleanEnd, MayOwn, Bound
<1>2. QED
  BY <1>1, IInvAlways, PTL

(* orma purge never removes the database under an instance. *)
THEOREM PurgeIsAlone == Spec => []PurgesAlone
<1>1. IInv => PurgesAlone
  BY DEF IInv, Exclusive, PurgesAlone
<1>2. QED
  BY <1>1, IInvAlways, PTL
=============================================================================
