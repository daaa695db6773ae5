------------------------------ MODULE MCInstaller -----------------------------
(* Instances of Installer for TLC.                                         *)
EXTENDS Installer

Accidents   == {"fail", "kill", "down"}
AllCommands == Modes \cup {"set-pin", "set-language", "uninstall"}
===============================================================================
