------------------------------- MODULE Rescue -------------------------------
(***************************************************************************)
(* `daedalus-host rescue enable-vnc | disable-vnc` on a headless machine   *)
(* (cmd/daedalus-host/rescue.go).  Each command is a fixed sequence of     *)
(* calls of dnf, systemctl and firewall-cmd and of writes below /etc/xrdp. *)
(* Any of them may fail, having done part of its work; a command may be    *)
(* killed between two calls or during one; two people may be at it.        *)
(***************************************************************************)
EXTENDS Naturals

CONSTANTS
    Session,      \* those who run the commands
    MaxCommands   \* bound: commands begun

ASSUME RescueAssumption == MaxCommands \in Nat

VARIABLES
    installed,    \* /usr/sbin/xrdp is there
    partly,       \* but dnf broke off before the rest of the package was
    startwm,      \* startwm.sh: none | packaged | stub | cut
    sesman,       \* sesman.ini: none | bare | deep | odd (no section to change)
    masked, enabled, active,   \* the units of which systemd says so
    port,         \* 3389/tcp is open in the firewall
    at,           \* [Session -> the call the command is at, or idle]
    mixed,        \* the sessions whose command has run beside another one
    warned,       \* the sessions that were told sesman.ini was not changed
    begun,        \* how many commands there have been
    claim         \* what the last command to end has told, if none ran beside it
                  \* and none has begun since: none | up | down | baseless

files == <<installed, partly, startwm, sesman>>
units == <<masked, enabled, active>>
machine == <<files, units, port>>
rescuevars == <<machine, at, mixed, warned, begun, claim>>

Unit == {"xrdp", "xrdp-sesman"}

RescueInit ==
    /\ installed = FALSE /\ partly = FALSE /\ startwm = "none" /\ sesman = "none"
    /\ masked = {} /\ enabled = {} /\ active = {} /\ port = FALSE
    /\ at = [s \in Session |-> "idle"]
    /\ mixed = {} /\ warned = {} /\ begun = 0 /\ claim = "none"

Working == {s \in Session : at[s] # "idle"}

\* systemctl show xrdp, and what mapXrdpUnitState makes of it.
UnitShown ==
    CASE "xrdp" \in masked                        -> "masked"
      [] "xrdp" \notin masked /\ ~installed       -> "not-installed"
      [] "xrdp" \in active \ masked /\ installed  -> "running"
      [] OTHER                                    -> "loaded"
----------------------------------------------------------------------------
(* How a command goes on, and how it ends. *)

Begin(s, first) ==
    /\ at[s] = "idle" /\ begun < MaxCommands
    /\ at' = [at EXCEPT ![s] = first]
    /\ mixed' = IF Working = {} THEN {} ELSE Working \cup {s}
    /\ warned' = IF Working = {} THEN {} ELSE warned \ {s}
    /\ begun' = begun + 1 /\ claim' = "none"
    /\ UNCHANGED machine

EnableVnc(s) == Begin(s, "check")
DisableVnc(s) == Begin(s, "stop")

Goto(s, next) == at' = [at EXCEPT ![s] = next] /\ UNCHANGED <<mixed, begun, claim>>

Ends(s, word) ==
    /\ at' = [at EXCEPT ![s] = "idle"]
    /\ claim' = IF s \in mixed THEN "none" ELSE word
    /\ UNCHANGED <<mixed, warned, begun>>

\* exitRuntime, after a call that failed: of itself, or for want of what the
\* command should have seen to before.
Fails(s) == Ends(s, "none")
FailsBaselessly(s) == Ends(s, "baseless")

\* What a file is once dnf has been at the package, which brings it as one of new.
Laid(file, new) == IF file = "none" THEN new ELSE {file}

\* The package lays down its own startwm.sh and sesman.ini.  One that is there in
\* part may pass with dnf for installed.
Installs ==
    \/ /\ installed' = TRUE /\ partly' = FALSE
       /\ startwm' \in Laid(startwm, {"packaged"})
       /\ sesman' \in Laid(sesman, {"bare", "deep", "odd"})
       /\ UNCHANGED <<units, port>>
    \/ partly /\ UNCHANGED machine

\* dnf breaks off: before the binary is there, or with any of the rest missing.
BreaksOff ==
    \/ UNCHANGED machine
    \/ /\ ~installed \/ partly
       /\ installed' = TRUE /\ partly' = TRUE
       /\ startwm' \in Laid(startwm, {"none", "packaged"})
       /\ sesman' \in Laid(sesman, {"none", "bare", "deep", "odd"})
       /\ UNCHANGED <<units, port>>
----------------------------------------------------------------------------
(* rescueEnableVnc *)

\* Mutant: a unit systemd knows of is taken for an installed package.
CheckUnit(s) ==
    /\ at[s] = "check"
    /\ Goto(s, IF UnitShown # "not-installed" THEN "harden" ELSE "epel")
    /\ UNCHANGED <<machine, warned>>

CheckInstalled(s) ==
    /\ at[s] = "check"
    /\ Goto(s, IF installed THEN "harden" ELSE "epel")
    /\ UNCHANGED <<machine, warned>>

\* EPEL, whose failures are passed over, then a repository file written in place
\* and COPR.
InstallFromEpel(s) ==
    /\ at[s] = "epel"
    /\ \/ Installs /\ Goto(s, "harden")
       \/ BreaksOff /\ Goto(s, "copr")
    /\ UNCHANGED warned

InstallFromCopr(s) ==
    /\ at[s] = "copr"
    /\ \/ Installs /\ Goto(s, "harden") /\ UNCHANGED warned
       \/ BreaksOff /\ Fails(s)

\* Rewritten in place.  Whatever goes wrong is a warning.
HardenSesman(s) ==
    /\ at[s] = "harden"
    /\ Goto(s, "stub")
    /\ \/ sesman \in {"bare", "deep"} /\ sesman' = "deep" /\ UNCHANGED warned
       \/ /\ warned' = warned \cup {s}
          /\ sesman' \in IF sesman = "none" THEN {"none"} ELSE {sesman, "odd"}
    /\ UNCHANGED <<installed, partly, startwm, units, port>>

\* Mutant: a stub that could not be written is a warning as well.
WriteStubLenient(s) ==
    /\ at[s] = "stub"
    /\ \/ installed /\ startwm' = "stub" /\ Goto(s, "unmask") /\ UNCHANGED warned
       \/ startwm' \in {startwm, "cut"} /\ Goto(s, "unmask") /\ UNCHANGED warned
    /\ UNCHANGED <<installed, partly, sesman, units, port>>

\* Without the package there is no directory to write to, without all of it there
\* may be none.
WriteStub(s) ==
    /\ at[s] = "stub"
    /\ \/ installed /\ startwm' = "stub" /\ Goto(s, "unmask") /\ UNCHANGED warned
       \/ installed /\ startwm' \in {startwm, "cut"} /\ Fails(s)
       \/ (~installed \/ partly) /\ UNCHANGED startwm /\ FailsBaselessly(s)
    /\ UNCHANGED <<installed, partly, sesman, units, port>>

Unmask(s) ==
    /\ at[s] = "unmask"
    /\ \/ masked' = {} /\ Goto(s, "start") /\ UNCHANGED warned
       \/ masked' \in SUBSET masked /\ Fails(s)
    /\ UNCHANGED <<files, enabled, active, port>>

\* enable --now: systemd refuses units that are masked or not there.
StartUnits(s) ==
    /\ at[s] = "start"
    /\ \/ /\ masked = {} /\ installed
          /\ enabled' = Unit /\ active' = Unit
          /\ Goto(s, "open") /\ UNCHANGED warned
       \/ /\ masked = {} /\ installed
          /\ \E E, A \in SUBSET Unit :
                enabled' = enabled \cup E /\ active' = active \cup A
          /\ Fails(s)
       \/ /\ masked # {} \/ ~installed \/ partly
          /\ FailsBaselessly(s) /\ UNCHANGED <<enabled, active>>
    /\ UNCHANGED <<files, masked, port>>

\* A port that cannot be opened is a warning.
OpenPort(s) ==
    /\ at[s] = "open"
    /\ port' \in {TRUE, port}
    /\ Ends(s, "up")
    /\ UNCHANGED <<files, units>>
----------------------------------------------------------------------------
(* rescueDisableVnc *)

\* disable --now: units that do not exist are an answer, not a failure.
StopUnits(s) ==
    /\ at[s] = "stop"
    /\ \/ installed /\ enabled' = {} /\ active' = {} /\ Goto(s, "mask") /\ UNCHANGED warned
       \/ ~installed /\ Goto(s, "mask") /\ UNCHANGED <<enabled, active, warned>>
       \/ enabled' \in SUBSET enabled /\ active' \in SUBSET active /\ Fails(s)
    /\ UNCHANGED <<files, masked, port>>

\* systemctl masks what does not exist as well.
Mask(s) ==
    /\ at[s] = "mask"
    /\ \/ masked' = Unit /\ Goto(s, "close") /\ UNCHANGED warned
       \/ (\E M \in SUBSET Unit : masked' = masked \cup M) /\ Fails(s)
    /\ UNCHANGED <<files, enabled, active, port>>

ClosePort(s) ==
    /\ at[s] = "close"
    /\ port' \in {FALSE, port}
    /\ Ends(s, "down")
    /\ UNCHANGED <<files, units>>
----------------------------------------------------------------------------
\* The command is killed.  A call it has made may be carried out all the same:
\* what a systemctl call then leaves is among what a failing one leaves.
Killed(s) ==
    /\ at[s] # "idle"
    /\ Ends(s, "none")
    /\ \/ UNCHANGED machine
       \/ at[s] \in {"epel", "copr"} /\ (Installs \/ BreaksOff)
       \/ at[s] = "stub" /\ startwm = "stub" /\ startwm' = "cut"
          /\ UNCHANGED <<installed, partly, sesman, units, port>>

RescueNext ==
    \E s \in Session :
       \/ EnableVnc(s) \/ DisableVnc(s)
       \/ CheckInstalled(s) \/ InstallFromEpel(s) \/ InstallFromCopr(s)
       \/ HardenSesman(s) \/ WriteStub(s) \/ Unmask(s) \/ StartUnits(s) \/ OpenPort(s)
       \/ StopUnits(s) \/ Mask(s) \/ ClosePort(s)
       \/ Killed(s)

RescueSpec == RescueInit /\ [][RescueNext]_rescuevars
----------------------------------------------------------------------------
\* Every variable has its type; what the package lays down is there with it.
RescueTypeOK ==
    /\ installed \in BOOLEAN /\ partly \in BOOLEAN /\ port \in BOOLEAN
    /\ partly => installed
    /\ startwm \in {"none", "packaged", "stub", "cut"}
    /\ sesman \in {"none", "bare", "deep", "odd"}
    /\ ~installed => startwm = "none" /\ sesman = "none" /\ enabled = {} /\ active = {}
    /\ masked \subseteq Unit /\ enabled \subseteq Unit /\ active \subseteq Unit
    /\ at \in [Session -> {"idle", "check", "epel", "copr", "harden", "stub", "unmask",
                           "start", "open", "stop", "mask", "close"}]
    /\ mixed \subseteq Session /\ warned \subseteq Session
    /\ begun \in 0..MaxCommands
    /\ claim \in {"none", "up", "down", "baseless"}

\* rescue.go, enable-vnc and disable-vnc: a command that had the machine to
\* itself tells the truth, wherever earlier commands broke off.  When it reports
\* success, enable-vnc has the units running over the stub, and sesman.ini has
\* the depth or a warning was given; disable-vnc has them stopped and masked,
\* even if they were never installed.  And it fails only of a call that fails,
\* never of something it should have seen to before, a package that is not there
\* or a unit that is masked; but a package of which dnf has left a part passes for
\* installed, since the command looks for /usr/sbin/xrdp only.
ClaimIsTrue ==
    /\ claim = "up" =>
          /\ installed /\ startwm = "stub" /\ UnitShown = "running"
          /\ masked = {} /\ enabled = Unit /\ active = Unit
          /\ sesman = "deep" \/ warned # {}
    /\ claim = "down" =>
          masked = Unit /\ enabled = {} /\ active = {} /\ UnitShown = "masked"
    /\ claim = "baseless" => partly

\* rescue.go, the stub before the units: no unit is started while startwm.sh is
\* the packaged one, which needs a desktop the machine has not, or is cut.
StartsOverStub ==
    [][active' \ active # {} => startwm = "stub" \/ mixed # {}]_rescuevars
=============================================================================
