---------------------------- MODULE UnitAdapters ----------------------------
(***************************************************************************)
(* The adapters service.set and task.set on one unit of the user's systemd. *)
(* An adapter's Apply or Rollback is a sequence of calls, fixed by what it  *)
(* observes when it starts; Adapters executes the calls one by one.  The    *)
(* effect of a systemctl verb is external, modelled from what the adapters  *)
(* expect of it.  Name and path checks are left out.                        *)
(***************************************************************************)
EXTENDS Naturals, Sequences

CONSTANTS
    Content,   \* contents of a unit file
    NoFile     \* the unit file does not exist

ASSUME UnitAssumption == NoFile \notin Content

\* file is on disk, loaded is what systemd has read of it, enabled stands for
\* the links of enable; failed and static are the states no verb restores.
Unit == [file    : Content \cup {NoFile},
         loaded  : Content \cup {NoFile},
         active  : {"active", "inactive", "failed"},
         enabled : {"enabled", "disabled", "static"}]

ServiceVerb == [started   |-> "start",  stopped  |-> "stop", restarted |-> "restart",
                enabled   |-> "enable", disabled |-> "disable"]

\* Any other word is accepted by Propose and refused by Apply.
ServiceArgs == DOMAIN ServiceVerb \cup {"unknown"}
TaskArgs == {"enabled", "disabled", "absent"}

ServiceInverse == [active |-> "start", inactive |-> "stop"]
TaskInverse == [enabled |-> "enable", disabled |-> "disable"]

Do(op) == <<[op |-> op, file |-> NoFile]>>
Restore(c) == [op |-> "restore", file |-> c]

\* A call that cannot succeed: the adapter gives up.
GiveUp == Do("give up")
----------------------------------------------------------------------------
(* Propose. *)

ServiceBefore(u) == [file |-> u.file, state |-> u.active]
TaskBefore(u) == [file |-> u.file, state |-> u.enabled]

\* task.set manages timers that have a file.
TaskAccepts(u) == u.file # NoFile
----------------------------------------------------------------------------
(* Apply. *)

ServiceApply(want) ==
    IF want \in DOMAIN ServiceVerb THEN Do(ServiceVerb[want]) ELSE GiveUp

\* absent: observe (which needs the file), disable if enabled, remove, reload.
TaskApply(want, u) ==
    CASE want = "enabled"  -> Do("enable")
      [] want = "disabled" -> Do("disable")
      [] want = "absent"   ->
            IF u.file = NoFile THEN GiveUp
            ELSE (IF u.enabled = "enabled" THEN Do("disable") ELSE <<>>)
                 \o Do("remove") \o Do("daemon-reload")
----------------------------------------------------------------------------
(* Rollback, the same for both but for the table of verbs. *)

\* Mutant: the verb is issued while systemd still has the old file.
FileBackUnread(before, u) ==
    IF before.file \in {NoFile, u.file} THEN <<>> ELSE <<Restore(before.file)>>

\* A file the snapshot has and that is different now is written back, and the
\* manager reloaded; a file the snapshot does not have is left alone.
FileBack(before, u) ==
    IF before.file \in {NoFile, u.file} THEN <<>>
    ELSE <<Restore(before.file)>> \o Do("daemon-reload")

\* A state without an inverse verb is left as it is.
StateBack(before, inverse) ==
    IF before.state \in DOMAIN inverse THEN Do(inverse[before.state]) ELSE <<>>

ServiceUndo(before, u) == FileBack(before, u) \o StateBack(before, ServiceInverse)
TaskUndo(before, u) == FileBack(before, u) \o StateBack(before, TaskInverse)
----------------------------------------------------------------------------
(* What a call needs, and does. *)

\* What systemd goes by: the file as last read, or read now if it was not.
Known(u) == IF u.loaded # NoFile THEN u.loaded ELSE u.file

UnitCan(call, u) ==
    CASE call.op \in {"start", "stop", "restart"}         -> Known(u) # NoFile
      [] call.op \in {"enable", "disable"}                -> u.file # NoFile
      [] call.op \in {"remove", "restore", "daemon-reload"} -> TRUE
      [] call.op = "give up"                              -> FALSE

Linked(u, how) ==
    [u EXCEPT !.enabled = IF @ = "static" THEN @ ELSE how, !.loaded = u.file]

UnitAfter(call, u) ==
    CASE call.op \in {"start", "restart"} -> [u EXCEPT !.active = "active", !.loaded = Known(u)]
      [] call.op = "stop"          -> [u EXCEPT !.active = "inactive", !.loaded = Known(u)]
      [] call.op = "enable"        -> Linked(u, "enabled")
      [] call.op = "disable"       -> Linked(u, "disabled")
      [] call.op = "remove"        -> [u EXCEPT !.file = NoFile]
      [] call.op = "restore"       -> [u EXCEPT !.file = call.file]
      [] call.op = "daemon-reload" -> [u EXCEPT !.loaded = u.file]

\* What others may do to a unit: edit or remove its file, reload, start or stop
\* it, enable or disable it.
UnitOthers(u) ==
    {[u EXCEPT !.file = c] : c \in Content \cup {NoFile}}
    \cup {UnitAfter(call, u) : call \in
            {c \in {Do(op)[1] : op \in {"start", "stop", "enable", "disable", "daemon-reload"}} :
                UnitCan(c, u)}}
    \cup {[u EXCEPT !.active = "failed"]}

\* Initially systemd has read the file.
UnitStart == {u \in Unit : u.loaded = u.file}
----------------------------------------------------------------------------
(* What Apply promises, and what Rollback promises. *)

ServiceMeets(want, u) ==
    CASE want \in {"started", "restarted"} -> u.active = "active"
      [] want = "stopped"  -> u.active = "inactive"
      [] want \in {"enabled", "disabled"} -> u.enabled \in {want, "static"}
      [] want = "unknown"  -> FALSE

TaskMeets(want, u) ==
    CASE want \in {"enabled", "disabled"} -> u.enabled \in {want, "static"}
      [] want = "absent" -> u.file = NoFile /\ u.loaded = NoFile /\ u.enabled # "enabled"

\* The file and, where there is a verb for it, the state of the snapshot.
\* service.set does not record whether the unit was enabled.
ServiceRestored(found, u) ==
    /\ u.file = found.file
    /\ found.active \in DOMAIN ServiceInverse => u.active = found.active

TaskRestored(found, u) ==
    /\ u.file = found.file
    /\ found.enabled \in DOMAIN TaskInverse => u.enabled = found.enabled
============================================================================
