------------------------------ MODULE TxCliEnds ------------------------------
(***************************************************************************)
(* How the subcommands of TxCli end.  A history variable keeps the         *)
(* transactions whose apply was killed or could not save its document: the *)
(* status applying of those is left to the operator (resolve), all others  *)
(* have to leave it.                                                       *)
(***************************************************************************)
EXTENDS TxCli

VARIABLE struck   \* history: transactions whose apply was cut off

evars == <<vars, struck>>

EInit == Init /\ struck = {}

\* The process is past MarkApplying, or comes past it by this very step.
Cuts(p) == cmd[p] = "apply" /\ (pc[p] # "loaded" \/ journal' # journal)

\* The process dies, or exits because its save failed.
CutOff(p, A) == A /\ struck' = IF Cuts(p) THEN struck \cup {txn[p]} ELSE struck

\* Nobody has to start a command.
Starts(p) ==
    /\ \/ \E id \in Id : Begin(p, id)
       \/ \E id \in Id, c \in Command : Open(p, c, id)
    /\ UNCHANGED struck

GoesOn(p) ==
    \/ Work(p) /\ UNCHANGED struck
    \/ CutOff(p, SaveFails(p))

Dies(p) == CutOff(p, Crash(p))

ENext == \E p \in Proc : Starts(p) \/ GoesOn(p) \/ Dies(p)

\* A started process is scheduled until it ends or is killed: adapters return
\* because each of their child processes has a timeout.
ESpec == EInit /\ [][ENext]_evars /\ \A p \in Proc : WF_evars(GoesOn(p))

\* Every command ends, whatever fails, and an apply leaves a verdict: its
\* transaction stops being applying, unless the apply is killed or a save of
\* its own fails (cmdApply: MarkFailed after the step that failed, MarkApplied
\* after the last one, exit 1 where either cannot be saved).
CommandsEnd ==
    /\ \A p \in Proc : pc[p] # "idle" ~> pc[p] = "idle"
    /\ \A id \in Id : journal[id].status = "applying" ~>
          journal[id].status # "applying" \/ id \in struck
============================================================================
