--------------------------------- MODULE Host ----------------------------------
(***************************************************************************)
(* A machine that keeps a registry: at the places of a database, its       *)
(* migrations and backups (Backup); at the Desk, the commands that set the *)
(* machine up (Installer).                                                 *)
(***************************************************************************)
EXTENDS Backup, Installer

CONSTANT Desk   \* the place at which commands are run

HostInit ==
  /\ Init
  /\ InstallerInit
  /\ place # Desk => config = Blank

HostNext ==
  \/ place # Desk /\ Next /\ UNCHANGED deskVars
  \/ place = Desk /\ InstallerNext /\ UNCHANGED vars

HostSpec == HostInit /\ [][HostNext]_<<vars, deskVars>>

\* The shape of every reachable state of the three modules.
Shape == TypeOK /\ InstallerTypeOK
================================================================================
