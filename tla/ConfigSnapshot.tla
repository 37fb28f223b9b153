--------------------------- MODULE ConfigSnapshot ---------------------------
(***************************************************************************)
(* What the commands that change the configuration promise without a lock: *)
(* each takes effect in one step, and makes of the file what it should     *)
(* have made of it when it read it; nothing else changes a file.  If no    *)
(* other command took effect on the file in between, that is the file as   *)
(* it is.                                                                  *)
(***************************************************************************)
EXTENDS ConfigFile

CONSTANTS
    Paths,      \* the configuration files, one per user
    Processes,  \* slots for commands running at the same time
    Idle        \* a free slot

VARIABLES
    files,      \* the content of each file
    running     \* in each slot: the file a command has read, what it is to do
                \* and the content it has seen

vars == <<files, running>>

Init ==
    /\ files = [path \in Paths |-> Default]
    /\ running = [i \in Processes |-> Idle]

Begin(i) ==
    /\ running[i] = Idle
    /\ \E path \in Paths :
          /\ running'[i] \in [path : {path}, cmd : Command, seen : {files[path]}]
          /\ running' = [running EXCEPT ![i] = running'[i]]
    /\ UNCHANGED files

TakeEffect(i) ==
    /\ running[i] # Idle
    /\ \E config \in Outcomes(running[i].cmd, running[i].seen) :
          files' = [files EXCEPT ![running[i].path] = config]
    /\ running' = [running EXCEPT ![i] = Idle]

\* The command refuses, or is killed.
Abandon(i) ==
    /\ running[i] # Idle
    /\ running' = [running EXCEPT ![i] = Idle]
    /\ UNCHANGED files

Next ==
    \E i \in Processes :
        Begin(i) \/ TakeEffect(i) \/ Abandon(i)

Spec == Init /\ [][Next]_vars

=============================================================================
