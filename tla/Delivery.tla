------------------------------ MODULE Delivery -------------------------------
(***************************************************************************)
(* What the mailbox writers of export/mbox.rs promise to whoever asks for  *)
(* a mailbox.  Each writer is given one task at a time.  It delivers what  *)
(* this task asks for, in one step and in the file the task names, or      *)
(* abandons it and leaves that file as it was; it changes no other file.   *)
(*                                                                         *)
(* Not every task can be answered: CanBeAnswered says of which mailboxes   *)
(* one file can be made that reads as their messages.  When it is false    *)
(* the content is left open, and the rest still holds.                     *)
(***************************************************************************)
CONSTANTS
    Writers,
    Tasks,                  \* what may be asked for; a task has an "output"
    CanBeAnswered(_, _),    \* CanBeAnswered(task, mailboxes)
    Fulfils(_, _, _)        \* Fulfils(task, mailboxes, content): content is what is asked for

VARIABLES
    mailboxes,          \* the content of every input
    outputs,            \* the content of every output name
    task,               \* what each writer is asked for
    state               \* "idle", "asked", "done" or "failed", of each writer

vars == <<mailboxes, outputs, task, state>>

Init == state = [w \in Writers |-> "idle"]

Ask(w, t) ==
    /\ state[w] # "asked"
    /\ task' = [task EXCEPT ![w] = t]
    /\ state' = [state EXCEPT ![w] = "asked"]
    /\ UNCHANGED <<mailboxes, outputs>>

Deliver(w) ==
    LET output == task[w].output
    IN  /\ state[w] = "asked"
        /\ CanBeAnswered(task[w], mailboxes) => Fulfils(task[w], mailboxes, outputs'[output])
        /\ outputs' = [outputs EXCEPT ![output] = outputs'[output]]
        /\ state' = [state EXCEPT ![w] = "done"]
        /\ UNCHANGED <<mailboxes, task>>

Abandon(w) ==
    /\ state[w] = "asked"
    /\ state' = [state EXCEPT ![w] = "failed"]
    /\ UNCHANGED <<mailboxes, outputs, task>>

Next == \E w \in Writers : (\E t \in Tasks : Ask(w, t)) \/ Deliver(w) \/ Abandon(w)

Spec == Init /\ [][Next]_vars
=============================================================================
