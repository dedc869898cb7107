-------------------------------- MODULE Setup --------------------------------
(***************************************************************************)
(* Installing and removing orma: the commands --init, --enable, --disable, *)
(* --purge and --export (cmd/orma/main.go) over the files they leave       *)
(* (internal/install), and the schema of the database, which every opening *)
(* migrates to the version of the binary that opens it (store/store.go).   *)
(* A command may be interrupted between two steps.  Lifecycle says which   *)
(* daemons run; here there is at most one.                                 *)
(*                                                                         *)
(* PHP is external.  It loads the extension if an INI it reads names it,   *)
(* and when it cannot load it prints a warning: on the standard output,    *)
(* where the commands read its answers, if it is noisy.  A question to PHP *)
(* may fail (its exit is not 0), or be answered by another PHP than the    *)
(* one of the installation: either way what is asked for is not learned.   *)
(***************************************************************************)
EXTENDS Integers

CONSTANTS
  Versions,   \* versions of the schema
  Openers     \* the daemon, and the commands that open the database as well

CONSTANT Daemon

(* Where the INI may be: mods-available, or the directory PHP scans.        *)
Places == {"mods", "scan"}

ASSUME OpenersAssumption == Daemon \in Openers
ASSUME VersionsAssumption == 0 \notin Versions   \* user_version of a new file

VARIABLES
  noisy,     \* PHP prints its warnings on the standard output
  step,      \* the next step of the command that runs, or "idle"
  conf,      \* the configuration exists
  unit,      \* the unit exists
  so,        \* orma.so in extension_dir: "absent", "partial", "alien", "good"
  ini,       \* the INI of each place: "absent", or the collection is "on" or "off"
  linked,    \* phpenmod has enabled that of mods-available
  spoiled,   \* orma.so has changed under an INI that names it
  purged,    \* the last command was a --purge that ended without problems
  unheard    \* it, or the one that runs, did not learn from PHP all it asked

files == <<conf, unit, so, ini, linked>>
installVars == <<noisy, step, files, spoiled, purged, unheard>>

VARIABLES
  bin,       \* the version of the installed binary
  shape,     \* the version of the tables in the database, 0 if none
  mark,      \* PRAGMA user_version
  opening,   \* what each opener does next, or "closed" or "open"
  runs,      \* the version it opened the database with, 0 if it is closed
  torn,      \* an opener ended with tables and mark of different versions
  mixed      \* two versions have had the database open together

databaseVars == <<bin, shape, mark, opening, runs, torn, mixed>>
vars == <<installVars, databaseVars>>

Init ==
  /\ noisy \in BOOLEAN
  /\ step = "idle"
  /\ conf = FALSE /\ unit = FALSE /\ so = "absent" /\ linked = FALSE
  /\ ini = [d \in Places |-> "absent"]
  /\ spoiled = FALSE /\ purged = FALSE /\ unheard = FALSE
  /\ bin \in Versions
  /\ shape = 0 /\ mark = 0
  /\ opening = [o \in Openers |-> "closed"]
  /\ runs = [o \in Openers |-> 0]
  /\ torn = FALSE /\ mixed = FALSE

-----------------------------------------------------------------------------
(* PHP. *)

Named == \E d \in Places : ini[d] # "absent"
Loaded == ini["scan"] # "absent" \/ (ini["mods"] # "absent" /\ linked)

(* PHP cannot load what its INI names.                                     *)
Broken == Loaded /\ so # "good"

(* valore: what PHP answers starts with its warning, if it has one.        *)
Garbled == noisy /\ Broken

(* Another command than a --purge, or the admin, has come after it.        *)
PurgedBefore == purged' = FALSE /\ unheard' = FALSE

(* The admin enables the INI of mods-available, or disables it.            *)
Phpenmod ==
  /\ step = "idle" /\ ini["mods"] # "absent" /\ so = "good"
  /\ linked' = ~linked
  /\ PurgedBefore
  /\ UNCHANGED <<noisy, step, conf, unit, so, ini, spoiled, databaseVars>>

-----------------------------------------------------------------------------
(* --init *)

Goto(s) == step' = s /\ UNCHANGED <<noisy, purged, unheard, databaseVars>>

(* doInit writes the configuration; an existing one refuses the command.   *)
InitConfig ==
  /\ step = "idle" /\ ~conf
  /\ conf' = TRUE
  /\ PurgedBefore
  /\ step' \in {"copy", "service"}   \* with and without --senza-estensione
  /\ UNCHANGED <<noisy, unit, so, ini, linked, spoiled, databaseVars>>

Overwritten(content) ==
  /\ so' = content
  /\ spoiled' = (spoiled \/ Named)
  /\ UNCHANGED <<conf, unit, ini, linked>>

(* copia truncates what is there; without an answer, or with a garbled     *)
(* one, there is no extension_dir to copy to.                              *)
CopyBegins ==
  /\ step = "copy"
  /\ \/ Goto("idle") /\ UNCHANGED <<files, spoiled>>
     \/ ~Garbled /\ Goto("copying") /\ Overwritten("partial")

(* The artefact is for this build of PHP, or for another one.              *)
CopyEnds ==
  /\ step = "copying"
  /\ Goto("verify")
  /\ \E artefact \in {"alien", "good"} : Overwritten(artefact)

CopyFails ==
  /\ step = "copying"
  /\ Goto("idle")
  /\ UNCHANGED <<files, spoiled>>

(* A mutant of Verify: what PHP says of the extension is not looked at.    *)
VerifyIgnored ==
  /\ step = "verify"
  /\ Goto("ini")
  /\ UNCHANGED <<files, spoiled>>

(* verifica: an extension that PHP does not load, or that it does not say  *)
(* it has, is removed again.                                               *)
Verify ==
  /\ step = "verify"
  /\ \/ so = "good" /\ Goto("ini") /\ UNCHANGED <<files, spoiled>>
     \/ Goto("idle") /\ Overwritten("absent")

(* scriviIni: in mods-available or, if the distribution has none or PHP    *)
(* did not tell its version, where PHP scans.  The INI says nothing of     *)
(* orma.enabled, whose default is 1.                                       *)
WriteIni ==
  /\ step = "ini"
  /\ Goto("service")
  /\ \E d \in Places : ini' = [ini EXCEPT ![d] = "on"]
  /\ UNCHANGED <<conf, unit, so, linked, spoiled>>

WriteIniFails ==
  /\ step = "ini"
  /\ Goto("idle")
  /\ UNCHANGED <<files, spoiled>>

(* installaServizio: without systemd there is nothing to install, and a    *)
(* failure is told and nothing more.                                       *)
InstallService ==
  /\ step = "service"
  /\ Goto("idle")
  /\ unit' \in {unit, TRUE}
  /\ UNCHANGED <<conf, so, ini, linked, spoiled>>

(* A mutant of Found: only the scanned directory is looked at.             *)
OnlyScanned(d) == d = "scan"

(* The place of an INI can be built from what PHP answers: the name of     *)
(* mods-available has the version in it, the scanned one is on its line.   *)
Found(d) == d = "mods" => ~Garbled

(* doAbilita: TrovaIni must find the INI, in a place it asks PHP for.      *)
Enable(value) ==
  /\ step = "idle"
  /\ \E d \in Places :
       /\ ini[d] # "absent" /\ Found(d)
       /\ ini' = [ini EXCEPT ![d] = value]
  /\ PurgedBefore
  /\ UNCHANGED <<noisy, step, conf, unit, so, linked, spoiled, databaseVars>>

-----------------------------------------------------------------------------
(* --purge *)

PurgeStep(s) == step' = s /\ UNCHANGED <<noisy, purged, databaseVars>>

(* doPurge, which a running daemon refuses, begins with RimuoviServizio;   *)
(* --senza-estensione leaves the extension alone.                          *)
PurgeService ==
  /\ step = "idle"
  /\ opening[Daemon] = "closed"
  /\ step' \in {"purge_so", "purge_rest"}
  /\ PurgedBefore
  /\ unit' = FALSE
  /\ UNCHANGED <<noisy, conf, so, ini, linked, spoiled, databaseVars>>

(* Rimuovi: first the extension, where PHP says it is.  If PHP says        *)
(* nothing the file is left where it is, and nobody is told ...            *)
PurgeSo ==
  /\ step = "purge_so"
  /\ PurgeStep("purge_ini")
  /\ \E heard \in BOOLEAN :
       /\ unheard' = ~heard
       /\ IF heard /\ ~Garbled THEN Overwritten("absent") ELSE UNCHANGED <<files, spoiled>>

(* Rimuovi stops where there is no PHP at all, and at a file that it       *)
(* cannot remove, which doPurge reports.                                   *)
PurgeProblem ==
  /\ step \in {"purge_so", "purge_ini"}
  /\ PurgeStep("purge_rest") /\ unheard' = FALSE
  /\ UNCHANGED <<files, spoiled>>

(* ... then the INI, in the places PHP tells: a place that PHP does not    *)
(* tell, when asked for its version or its --ini, is skipped as silently.  *)
PurgeIni ==
  /\ step = "purge_ini"
  /\ PurgeStep("purge_files")
  /\ \E heard \in SUBSET Places :
       /\ unheard' = (unheard \/ heard # Places)
       /\ ini' = [d \in Places |-> IF d \in heard /\ Found(d) THEN "absent" ELSE ini[d]]
  /\ UNCHANGED <<conf, unit, so, linked, spoiled>>

(* The database, the socket, the pidfile and the configuration.  Whoever   *)
(* has the database open goes on with a file that is not there any more.   *)
PurgeFiles ==
  /\ step \in {"purge_files", "purge_rest"}
  /\ step' = "idle"
  /\ purged' = (step = "purge_files")
  /\ conf' = FALSE
  /\ shape' = 0 /\ mark' = 0 /\ torn' = FALSE /\ mixed' = FALSE
  /\ opening' = [o \in Openers |-> "closed"] /\ runs' = [o \in Openers |-> 0]
  /\ UNCHANGED <<noisy, unit, so, ini, linked, spoiled, unheard, bin>>

(* A command is killed, or the machine stops.                              *)
Interrupt ==
  /\ step # "idle"
  /\ step' = "idle"
  /\ PurgedBefore
  /\ UNCHANGED <<noisy, files, spoiled, databaseVars>>

(* The admin removes the configuration to generate it again.               *)
RemoveConfig ==
  /\ step = "idle" /\ conf
  /\ conf' = FALSE
  /\ PurgedBefore
  /\ UNCHANGED <<noisy, step, unit, so, ini, linked, spoiled, databaseVars>>

Commands ==
  \/ Phpenmod \/ InitConfig \/ CopyBegins \/ CopyEnds \/ CopyFails \/ Verify \/ WriteIni
  \/ WriteIniFails \/ InstallService \/ Enable("on") \/ Enable("off")
  \/ PurgeService \/ PurgeSo \/ PurgeProblem \/ PurgeIni \/ PurgeFiles \/ Interrupt \/ RemoveConfig

-----------------------------------------------------------------------------
(* The database. *)

Moves(o, next) == opening' = [opening EXCEPT ![o] = next] /\ UNCHANGED <<installVars, bin>>

(* Another version replaces the binary; a running daemon keeps its own.    *)
Upgrade ==
  /\ \E v \in Versions : bin' = v
  /\ UNCHANGED <<installVars, shape, mark, opening, runs, torn, mixed>>

(* A mutant of Stale: a database of a later version is not noticed.        *)
OnlyOlder(v) == mark # 0 /\ mark < v

Stale(v) == mark # 0 /\ mark # v

(* Open and migrate: user_version is read.  The daemon is not started      *)
(* while a command of the installation runs.                               *)
OpenBegins(o) ==
  /\ opening[o] = "closed"
  /\ o = Daemon => step = "idle"
  /\ Moves(o, IF Stale(bin) THEN "drop" ELSE "create")
  /\ runs' = [runs EXCEPT ![o] = bin]
  /\ mixed' = (mixed \/ \E p \in Openers : opening[p] # "closed" /\ runs[p] # bin)
  /\ UNCHANGED <<shape, mark, torn>>

(* The tables of another version are dropped ...                           *)
Drop(o) ==
  /\ opening[o] = "drop"
  /\ Moves(o, "create")
  /\ shape' = 0
  /\ UNCHANGED <<mark, runs, torn, mixed>>

(* ... those that are missing are created ...                              *)
Create(o) ==
  /\ opening[o] = "create"
  /\ Moves(o, "mark")
  /\ shape' = IF shape = 0 THEN runs[o] ELSE shape
  /\ UNCHANGED <<mark, runs, torn, mixed>>

(* ... and the file is marked with the version.                            *)
Mark(o) ==
  /\ opening[o] = "mark"
  /\ Moves(o, "open")
  /\ mark' = runs[o]
  /\ UNCHANGED <<shape, runs, torn, mixed>>

(* An opener ends or is killed, at any moment.  The last one to end leaves *)
(* a database that is in order, or is torn.                                *)
Close(o) ==
  /\ opening[o] # "closed"
  /\ Moves(o, "closed")
  /\ LET last == \A p \in Openers \ {o} : opening[p] = "closed"
     IN  /\ torn' = ((torn /\ ~last) \/ shape # mark)
         /\ mixed' = (mixed /\ ~last)
  /\ runs' = [runs EXCEPT ![o] = 0]
  /\ UNCHANGED <<shape, mark>>

Next ==
  \/ Commands
  \/ Upgrade
  \/ \E o \in Openers : OpenBegins(o) \/ Drop(o) \/ Create(o) \/ Mark(o) \/ Close(o)

Spec == Init /\ [][Next]_vars

-----------------------------------------------------------------------------
(* Properties. *)

TypeOK ==
  /\ {noisy, conf, unit, linked, spoiled, purged, unheard, torn, mixed}
       \subseteq BOOLEAN
  /\ step \in {"idle", "copy", "copying", "verify", "ini", "service", "purge_so", "purge_ini",
               "purge_files", "purge_rest"}
  /\ so \in {"absent", "partial", "alien", "good"}
  /\ ini \in [Places -> {"absent", "on", "off"}]
  /\ bin \in Versions /\ shape \in Versions \cup {0} /\ mark \in Versions \cup {0}
  /\ opening \in [Openers -> {"closed", "drop", "create", "mark", "open"}]
  /\ runs \in [Openers -> Versions \cup {0}]
  /\ \A o \in Openers : opening[o] # "closed" => runs[o] \in Versions

(* An installation over nothing never makes PHP fail to load what an INI   *)
(* names, wherever it stops: only one over an earlier installation does,   *)
(* or a --purge that did not reach the INI.                                *)
InstallBreaksNothing == Broken => spoiled

(* A --purge that reports no problem, and whose every question PHP has     *)
(* answered without a warning on the standard output, has left neither the *)
(* configuration, nor the unit, nor the extension, nor an INI.             *)
PurgeCleans ==
  purged /\ ~noisy /\ ~unheard => ~conf /\ ~unit /\ so = "absent" /\ ~Named

(* A daemon that runs finds the tables of its own version, unless two      *)
(* versions had the database open together, one was left half made, or an  *)
(* opening that found it stale is still to create them again.              *)
DaemonFindsItsTables ==
  opening[Daemon] = "open" /\ ~torn /\ ~mixed /\ (\A o \in Openers : opening[o] # "create")
    => shape = runs[Daemon]

-----------------------------------------------------------------------------

(* install.go:78-79 says that uninstalling removes the INI from where it   *)
(* was written.  This is asked of a --purge that PHP has always answered.  *)
PurgeRemovesTheIni == purged /\ ~unheard => ~Named
=============================================================================
