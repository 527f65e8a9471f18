----------------------------- MODULE Installer -----------------------------
(***************************************************************************)
(* Runs of install.sh on one rig, each from the clone or from              *)
(* /opt/wardriving-rig, cut off anywhere, with or without a network.       *)
(*                                                                         *)
(* Kept are the steps that read or delete what an earlier run left.  What  *)
(* every run simply writes again (units, rendered configs, the driver) and *)
(* what fails without ending the script (|| true, || warn) is left out.    *)
(***************************************************************************)
CONSTANTS
    HasPi           \* the host has the user that rig.conf.example names

VARIABLES
    pc,             \* the step that is next, "off" when no run is under way
    online,
    conf,           \* config/rig.conf: "none", "example" or "own" user
    packages,       \* the base packages are there
    kismet,         \* so is Kismet
    repo,           \* its apt source: "none", "unsigned" (no key) or "signed"
    venv,           \* webapp/.venv: "none", "bare" or "ready" (has gunicorn)

    (* For the property. *)
    installed,      \* some run came to its end
    cutOff          \* a run since then was interrupted

files == <<conf, packages, kismet, repo, venv>>
vars == <<pc, online, files, installed, cutOff>>

Init ==
    /\ pc = "off"
    /\ online \in BOOLEAN
    /\ conf = "none" /\ packages = FALSE /\ kismet = FALSE
    /\ repo = "none" /\ venv = "none"
    /\ installed = FALSE /\ cutOff = FALSE

\* A step of the run.
At(step, next) == pc = step /\ pc' = next /\ UNCHANGED <<online, installed, cutOff>>

\* set -e
Die(step) == At(step, "off") /\ UNCHANGED files

\* From the clone the script first copies itself.
Start(next) ==
    /\ pc = "off"
    /\ pc' = next
    /\ UNCHANGED <<online, files, installed, cutOff>>

\* rsync --delete: the clone has no webapp/.venv.
Copy ==
    /\ At("copy", "example")
    /\ venv' = "none"
    /\ UNCHANGED <<conf, packages, kismet, repo>>

CopyExample ==
    /\ At("example", IF conf = "none" THEN "user" ELSE "source")
    /\ conf' = IF conf = "none" THEN "example" ELSE conf
    /\ UNCHANGED <<packages, kismet, repo, venv>>

\* With sudo there is a DETECTED_USER.
SetUser ==
    /\ At("user", "source")
    /\ conf' = "own"
    /\ UNCHANGED <<packages, kismet, repo, venv>>

ValidUser == conf = "own" \/ HasPi

Source ==
    \/ ValidUser /\ At("source", "apt") /\ UNCHANGED files
    \/ ~ValidUser /\ Die("source")

\* apt-get update refuses a source that it reaches and cannot verify; without
\* a network it only warns.
AptWorks == (online \/ packages) /\ ~(online /\ repo = "unsigned")

InstallPackages ==
    \/ /\ AptWorks
       /\ At("apt", "kismet")
       /\ packages' = TRUE
       /\ UNCHANGED <<conf, kismet, repo, venv>>
    \/ ~AptWorks /\ Die("apt")

\* install_kismet, whose failure is only a warning.  It is called in an if, so
\* no failure inside ends it: the source is written whether the key came or
\* not (an older one stays), and apt-get may still fail after it did.
InstallKismet ==
    /\ At("kismet", "venv")
    /\ \/ /\ kismet
          /\ UNCHANGED <<kismet, repo>>
       \/ /\ ~kismet /\ online
          /\ kismet' = TRUE /\ repo' = "signed"
       \/ /\ ~kismet
          /\ kismet' = FALSE
          /\ \/ repo' = IF repo = "signed" THEN repo ELSE "unsigned"
             \/ online /\ repo' = "signed"
    /\ UNCHANGED <<conf, packages, venv>>

\* python3 -m venv keeps one that is there.
MakeVenv ==
    /\ At("venv", "pip")
    /\ venv' = IF venv = "none" THEN "bare" ELSE venv
    /\ UNCHANGED <<conf, packages, kismet, repo>>

\* pip install -r asks the network only for what is missing.
PipInstall ==
    \/ /\ online \/ venv = "ready"
       /\ At("pip", "finish")
       /\ venv' = "ready"
       /\ UNCHANGED <<conf, packages, kismet, repo>>
    \/ ~online /\ venv # "ready" /\ Die("pip")

Finish ==
    /\ pc = "finish"
    /\ pc' = "off"
    /\ installed' = TRUE /\ cutOff' = FALSE
    /\ UNCHANGED <<online, files>>

\* Ctrl-C, a closed SSH session, the power.
Interrupt ==
    /\ pc # "off"
    /\ pc' = "off" /\ cutOff' = TRUE
    /\ UNCHANGED <<online, files, installed>>

NetworkChanges ==
    /\ online' = ~online
    /\ UNCHANGED <<pc, files, installed, cutOff>>

Next ==
    \/ Start("copy") \/ Start("example")
    \/ Copy \/ CopyExample \/ SetUser \/ Source
    \/ InstallPackages \/ InstallKismet \/ MakeVenv \/ PipInstall \/ Finish
    \/ Interrupt \/ NetworkChanges

Spec == Init /\ [][Next]_vars
---------------------------------------------------------------------------
(* Properties. *)

\* "Re-running this script is safe - every step is idempotent" (install.sh:5),
\* "any time (e.g. after editing config/rig.conf)" (README.md:113): on a rig
\* that was installed, Kismet included, runs that nobody interrupts leave a
\* web launcher that can start, also where there is no network.
RerunsAreSafe ==
    pc = "off" /\ installed /\ kismet /\ ~cutOff => venv = "ready"
============================================================================
