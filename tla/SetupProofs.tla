----------------------------- MODULE SetupProofs -----------------------------
(***************************************************************************)
(* Proofs about Setup, for any set of versions and of openers.             *)
(***************************************************************************)
EXTENDS Setup, TLAPS

(* Every variable keeps its type.                                          *)
THEOREM TypeCorrect == Spec => []TypeOK
<1>1. Init => TypeOK
  BY DEF Init, TypeOK
<1>2. TypeOK /\ [Next]_vars => TypeOK'
  <2> SUFFICES ASSUME TypeOK, [Next]_vars PROVE TypeOK'
    OBVIOUS
  <2> USE DEF TypeOK
  <2>1. CASE Commands
    <3> USE DEF Goto, PurgeStep, PurgedBefore, Overwritten, files, databaseVars
    <3>1. CASE CopyBegins \/ CopyEnds \/ CopyFails \/ Verify
      BY <3>1 DEF CopyBegins, CopyEnds, CopyFails, Verify
    <3>2. CASE WriteIni \/ WriteIniFails \/ InstallService \/ InitConfig
      BY <3>2 DEF WriteIni, WriteIniFails, InstallService, InitConfig
    <3>3. CASE PurgeService \/ PurgeSo \/ PurgeProblem \/ PurgeIni \/ PurgeFiles
      BY <3>3 DEF PurgeService, PurgeSo, PurgeProblem, PurgeIni, PurgeFiles
    <3>4. CASE Phpenmod \/ Enable("on") \/ Enable("off") \/ Interrupt \/ RemoveConfig
      BY <3>4 DEF Phpenmod, Enable, Interrupt, RemoveConfig
    <3> QED  BY <2>1, <3>1, <3>2, <3>3, <3>4 DEF Commands
  <2>2. CASE Upgrade
    BY <2>2 DEF Upgrade, installVars, files
  <2>3. ASSUME NEW o \in Openers, OpenBegins(o) \/ Drop(o) \/ Create(o) \/ Mark(o) \/ Close(o)
        PROVE  TypeOK'
    <3> USE DEF Moves, installVars, files
    <3>1. CASE OpenBegins(o)
      BY <3>1 DEF OpenBegins
    <3>2. CASE Drop(o)
      BY <3>2 DEF Drop
    <3>3. CASE Create(o)
      BY <3>3 DEF Create
    <3>4. CASE Mark(o)
      BY <3>4 DEF Mark
    <3>5. CASE Close(o)
      BY <3>5 DEF Close
    <3> QED  BY <2>3, <3>1, <3>2, <3>3, <3>4, <3>5
  <2>4. CASE UNCHANGED vars
    BY <2>4 DEF vars, installVars, files, databaseVars
  <2> QED  BY <2>1, <2>2, <2>3, <2>4 DEF Next
<1> QED  BY <1>1, <1>2, PTL DEF Spec

-----------------------------------------------------------------------------
(* The installation. *)

(* An INI is written only next to an extension that was verified.          *)
InstallInv ==
  /\ TypeOK
  /\ step = "ini" => so = "good"
  /\ so # "good" /\ Named => spoiled

(* PHP fails to load what an INI names only after orma.so changed under    *)
(* that INI, wherever a command of the installation stops.                 *)
THEOREM InstallSafe == Spec => []InstallBreaksNothing
<1>1. Init => TypeOK /\ InstallInv
  BY DEF Init, TypeOK, InstallInv, Named
<1>2. InstallInv /\ TypeOK' /\ [Next]_vars => InstallInv'
  <2> SUFFICES ASSUME InstallInv, TypeOK', [Next]_vars PROVE InstallInv'
    OBVIOUS
  <2>a. ini \in [Places -> {"absent", "on", "off"}]
    BY DEF InstallInv, TypeOK
  <2> USE DEF InstallInv, Named, Goto, PurgeStep, PurgedBefore, files
  <2>1. CASE Commands
    <3>1. CASE CopyBegins \/ CopyEnds \/ CopyFails \/ Verify
      BY <3>1 DEF CopyBegins, CopyEnds, CopyFails, Verify, Overwritten
    <3>2. CASE WriteIni \/ WriteIniFails \/ InstallService \/ InitConfig
      BY <2>a, <3>2 DEF WriteIni, WriteIniFails, InstallService, InitConfig
    <3>3. CASE PurgeService \/ PurgeSo \/ PurgeProblem \/ PurgeIni \/ PurgeFiles
      BY <2>a, <3>3 DEF PurgeService, PurgeSo, PurgeProblem, PurgeIni, PurgeFiles, Overwritten
    <3>4. CASE Phpenmod \/ Enable("on") \/ Enable("off") \/ Interrupt \/ RemoveConfig
      BY <2>a, <3>4 DEF Phpenmod, Enable, Interrupt, RemoveConfig
    <3> QED  BY <2>1, <3>1, <3>2, <3>3, <3>4 DEF Commands
  <2>2. CASE UNCHANGED installVars
    BY <2>2 DEF installVars
  <2>3. Upgrade \/ (\E o \in Openers :
          OpenBegins(o) \/ Drop(o) \/ Create(o) \/ Mark(o) \/ Close(o)) => UNCHANGED installVars
    BY DEF Upgrade, OpenBegins, Drop, Create, Mark, Close, Moves
  <2> QED  BY <2>1, <2>2, <2>3 DEF Next, vars
<1>3. InstallInv => InstallBreaksNothing
  BY DEF InstallInv, InstallBreaksNothing, Broken, Loaded, Named, Places
<1> QED  BY <1>1, <1>2, <1>3, TypeCorrect, PTL DEF Spec

(* What a --purge that PHP has answered has removed by the time it reaches *)
(* each of its steps.                                                      *)
PurgeInv ==
  ~noisy =>
    /\ step \in {"purge_so", "purge_ini", "purge_files"} => ~unit /\ ~purged
    /\ step \in {"purge_ini", "purge_files"} /\ ~unheard => so = "absent"
    /\ step = "purge_files" /\ ~unheard => ~Named
    /\ purged => /\ step \in {"idle", "purge_rest"} /\ ~conf /\ ~unit
                 /\ ~unheard => so = "absent" /\ ~Named

(* A --purge that reports no problem, and whose every question PHP has     *)
(* answered without a warning on the standard output, has left neither the *)
(* configuration, nor the unit, nor the extension, nor an INI.             *)
THEOREM PurgeSafe == Spec => []PurgeCleans
<1>1. Init => PurgeInv
  BY DEF Init, PurgeInv
<1>2. PurgeInv /\ [Next]_vars => PurgeInv'
  <2> SUFFICES ASSUME PurgeInv, [Next]_vars PROVE PurgeInv'
    OBVIOUS
  <2> USE DEF PurgeInv, Named, Goto, PurgeStep, PurgedBefore, files
  <2>1. CASE Commands
    <3>1. CASE CopyBegins \/ CopyEnds \/ CopyFails \/ Verify
      BY <3>1 DEF CopyBegins, CopyEnds, CopyFails, Verify, Overwritten
    <3>2. CASE WriteIni \/ WriteIniFails \/ InstallService \/ InitConfig
      BY <3>2 DEF WriteIni, WriteIniFails, InstallService, InitConfig
    <3>3. CASE PurgeService \/ PurgeSo \/ PurgeProblem \/ PurgeIni
      BY <3>3 DEF PurgeService, PurgeSo, PurgeProblem, PurgeIni, Overwritten, Garbled,
         Found
    <3>4. CASE PurgeFiles
      BY <3>4 DEF PurgeFiles
    <3>5. CASE Phpenmod \/ Enable("on") \/ Enable("off") \/ Interrupt \/ RemoveConfig
      BY <3>5 DEF Phpenmod, Enable, Interrupt, RemoveConfig
    <3> QED  BY <2>1, <3>1, <3>2, <3>3, <3>4, <3>5 DEF Commands
  <2>2. CASE UNCHANGED installVars
    BY <2>2 DEF installVars
  <2>3. Upgrade \/ (\E o \in Openers :
          OpenBegins(o) \/ Drop(o) \/ Create(o) \/ Mark(o) \/ Close(o)) => UNCHANGED installVars
    BY DEF Upgrade, OpenBegins, Drop, Create, Mark, Close, Moves
  <2> QED  BY <2>1, <2>2, <2>3 DEF Next, vars
<1>3. PurgeInv => PurgeCleans
  BY DEF PurgeInv, PurgeCleans
<1> QED  BY <1>1, <1>2, <1>3, PTL DEF Spec

-----------------------------------------------------------------------------
(* The database. *)

(* While one version has the database open and nothing was left half made, *)
(* the tables are missing, or of that version, or all the openers are      *)
(* still to drop those of the version before; and a database that lost its *)
(* tables under an opener is marked, so that ending now leaves it torn.    *)
AllClosed == \A o \in Openers : opening[o] = "closed"
OneVersion ==
  \A o, p \in Openers : opening[o] # "closed" /\ opening[p] # "closed" => runs[o] = runs[p]
AllDrop == shape = mark /\ \A p \in Openers : opening[p] \in {"closed", "drop"}
OwnTables == \A o \in Openers : opening[o] # "closed" => shape \in {0, runs[o]} \/ AllDrop
Recreated ==
  (\A o \in Openers : opening[o] # "create") =>
    \A o \in Openers : opening[o] \in {"mark", "open"} => shape = runs[o]
Marked ==
  \A o \in Openers :
    \/ opening[o] = "drop"
    \/ opening[o] \in {"mark", "open"} /\ shape = 0
    => mark # 0

SchemaInv ==
  /\ TypeOK
  /\ ~torn /\ ~mixed => /\ AllClosed => shape = mark
                        /\ OneVersion /\ OwnTables /\ Recreated /\ Marked

(* A daemon that runs finds the tables of its own version, unless two      *)
(* versions had the database open together, one was left half made, or an  *)
(* opening that found it stale is still to create them again.              *)
THEOREM SchemaSafe == Spec => []DaemonFindsItsTables
<1> USE DEF AllClosed, OneVersion, AllDrop, OwnTables, Recreated, Marked
<1>1. Init => SchemaInv
  <2>1. Init => TypeOK
    BY DEF Init, TypeOK
  <2> QED  BY <2>1 DEF Init, SchemaInv
<1>2. TypeOK /\ SchemaInv /\ TypeOK' /\ [Next]_vars => SchemaInv'
  <2> SUFFICES ASSUME TypeOK, SchemaInv, TypeOK', [Next]_vars, ~torn', ~mixed'
               PROVE  (/\ AllClosed => shape = mark
                       /\ OneVersion /\ OwnTables /\ Recreated /\ Marked)'
    BY DEF SchemaInv
  <2>a. /\ opening \in [Openers -> {"closed", "drop", "create", "mark", "open"}]
        /\ runs \in [Openers -> Versions \cup {0}] /\ bin \in Versions /\ 0 \notin Versions
        /\ \A o \in Openers : opening[o] # "closed" => runs[o] \in Versions
    BY VersionsAssumption DEF TypeOK
  <2>1. CASE UNCHANGED <<shape, mark, opening, runs, torn, mixed>>
    BY <2>1 DEF SchemaInv
  <2>2. CASE PurgeFiles
    BY <2>2 DEF PurgeFiles
  <2>3. ASSUME NEW o \in Openers, OpenBegins(o)
        PROVE  (/\ AllClosed => shape = mark
                /\ OneVersion /\ OwnTables /\ Recreated /\ Marked)'
    <3>1. /\ opening' = [opening EXCEPT ![o] = IF Stale(bin) THEN "drop" ELSE "create"]
          /\ runs' = [runs EXCEPT ![o] = bin]
          /\ opening[o] = "closed" /\ UNCHANGED <<shape, mark, torn>>
      BY <2>3 DEF OpenBegins, Moves
    <3>2. ~torn /\ ~mixed /\ \A p \in Openers : opening[p] # "closed" => runs[p] = bin
      <4>1. mixed' = (mixed \/ \E p \in Openers : opening[p] # "closed" /\ runs[p] # bin)
        BY <2>3 DEF OpenBegins
      <4>2. ~(mixed \/ \E p \in Openers : opening[p] # "closed" /\ runs[p] # bin)
        BY <4>1, Zenon
      <4>3. ~torn
        BY <3>1, Zenon
      <4> QED  BY <4>2, <4>3
    <3>3. OneVersion'
      BY <2>a, <3>1, <3>2
    <3>4. shape \in {0, bin} \/ (AllDrop /\ Stale(bin))
      <4>1. CASE AllClosed
        BY <4>1, <3>2 DEF SchemaInv, Stale
      <4>2. CASE ~AllClosed
        <5>1. PICK p \in Openers : opening[p] # "closed"
          BY <4>2
        <5>2. runs[p] = bin /\ (shape \in {0, runs[p]} \/ AllDrop)
          BY <5>1, <3>2 DEF SchemaInv
        <5>3. AllDrop => mark # 0
          BY <5>1, <3>2 DEF SchemaInv
        <5> QED  BY <5>2, <5>3 DEF Stale
      <4> QED  BY <4>1, <4>2
    <3>5. OwnTables'
      <4>a. \A p \in Openers : opening'[p] # "closed" => runs'[p] = bin
        BY <2>a, <3>1, <3>2
      <4>1. CASE shape \in {0, bin}
        BY <4>1, <4>a, <3>1
      <4>2. CASE AllDrop /\ Stale(bin)
        BY <4>2, <2>a, <3>1
      <4> QED  BY <3>4, <4>1, <4>2
    <3>6. Recreated'
      BY <2>a, <3>1, <3>2 DEF SchemaInv
    <3>7. Marked'
      BY <2>a, <3>1, <3>2 DEF SchemaInv, Stale
    <3>8. ~AllClosed'
      BY <2>a, <3>1
    <3> QED  BY <3>3, <3>5, <3>6, <3>7, <3>8
  <2>4. ASSUME NEW o \in Openers, Drop(o)
        PROVE  (/\ AllClosed => shape = mark
                /\ OneVersion /\ OwnTables /\ Recreated /\ Marked)'
    BY <2>a, <2>4 DEF Drop, Moves, SchemaInv
  <2>5. ASSUME NEW o \in Openers, Create(o)
        PROVE  (/\ AllClosed => shape = mark
                /\ OneVersion /\ OwnTables /\ Recreated /\ Marked)'
    <3>1. /\ opening' = [opening EXCEPT ![o] = "mark"] /\ opening[o] = "create"
          /\ shape' = runs[o] /\ UNCHANGED <<mark, runs>>
          /\ \A p \in Openers : opening[p] # "closed" => runs[p] = runs[o]
      BY <2>5 DEF Create, Moves, SchemaInv
    <3> QED  BY <2>a, <2>5, <3>1 DEF Create, SchemaInv
  <2>6. ASSUME NEW o \in Openers, Mark(o)
        PROVE  (/\ AllClosed => shape = mark
                /\ OneVersion /\ OwnTables /\ Recreated /\ Marked)'
    <3>1. /\ opening' = [opening EXCEPT ![o] = "open"] /\ opening[o] = "mark"
          /\ mark' = runs[o] /\ UNCHANGED <<shape, runs, torn, mixed>>
          /\ shape \in {0, runs[o]}
          /\ \A p \in Openers : opening[p] # "closed" => runs[p] = runs[o]
      BY <2>6 DEF Mark, Moves, SchemaInv
    <3> QED  BY <2>a, <3>1 DEF SchemaInv
  <2>7. ASSUME NEW o \in Openers, Close(o)
        PROVE  (/\ AllClosed => shape = mark
                /\ OneVersion /\ OwnTables /\ Recreated /\ Marked)'
    <3>1. /\ opening' = [opening EXCEPT ![o] = "closed"] /\ opening[o] # "closed"
          /\ runs' = [runs EXCEPT ![o] = 0]
          /\ shape = mark /\ UNCHANGED <<shape, mark>>
      BY <2>7 DEF Close, Moves
    <3>2. CASE \A p \in Openers \ {o} : opening[p] = "closed"
      BY <2>a, <3>1, <3>2
    <3>3. CASE ~ \A p \in Openers \ {o} : opening[p] = "closed"
      <4>1. ~torn /\ ~mixed
        BY <2>7, <3>3 DEF Close
      <4> QED  BY <2>a, <3>1, <4>1 DEF SchemaInv
    <3> QED  BY <3>2, <3>3
  <2>8. Commands => PurgeFiles \/ UNCHANGED <<shape, mark, opening, runs, torn, mixed>>
    BY DEF Commands, Goto, PurgeStep, databaseVars, Phpenmod, InitConfig, CopyBegins, CopyEnds,
       CopyFails, Verify, WriteIni, WriteIniFails, InstallService, Enable, PurgeService,
       PurgeSo, PurgeProblem, PurgeIni, Interrupt, RemoveConfig
  <2>9. Upgrade \/ UNCHANGED vars => UNCHANGED <<shape, mark, opening, runs, torn, mixed>>
    BY DEF Upgrade, vars, databaseVars
  <2> QED  BY <2>1, <2>2, <2>3, <2>4, <2>5, <2>6, <2>7, <2>8, <2>9 DEF Next
<1>3. SchemaInv => DaemonFindsItsTables
  BY OpenersAssumption DEF SchemaInv, DaemonFindsItsTables
<1> QED  BY <1>1, <1>2, <1>3, TypeCorrect, PTL DEF Spec
=============================================================================
