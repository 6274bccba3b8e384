------------------------------ MODULE Ownership ------------------------------
(***************************************************************************)
(* Who owns a ticket.  A daemon that restarts knows nothing of the          *)
(* processes its predecessors have left but the state of a ticket in        *)
(* Linear, which start_ticket writes before it starts the process; and that *)
(* state may be lost or changed.  The history variable of this module lists *)
(* the tickets at which that has happened, so that the others can be        *)
(* promised an owner.                                                       *)
(***************************************************************************)
EXTENDS Watcher

CONSTANT MaxBroken  \* bound: how many tickets that may happen to

ASSUME BrokenAssumption == MaxBroken \in Nat

VARIABLE excused   \* tickets that are no longer locked by their state

ownVars == <<vars, excused>>

\* safe_set_state has swallowed the refusal of the write that locks t.
LostAtClaim(t) ==
    /\ pc = "claim" /\ pc' = "spawn" /\ t = cur
    /\ linear'[t] # "InProgressLocal"

\* A process works on t, the daemon is launching it, or its manifest holds it back.
InUse(t) ==
    \/ \E w \in Live : ticketOf[w] = t
    \/ t = cur
    \/ status[t] = "WaitingForDeps"

\* People move a ticket while it is in use.
MovedInUse(t) == HumanMove(t) /\ InUse(t) /\ linear'[t] # linear[t]

\* The retry loop has launched a process that nobody waits for.
LaunchedAgain(t) ==
    /\ pc \in {"joinLocal", "joinCloud"}
    /\ \E w \in Live' \ Live : ticketOf'[w] = t

\* Tickets filed as ready in Linear and as waiting in their manifest.
FiledTwice ==
    {t \in Ticket : Manifest[t].status = "WaitingForDeps" /\ Issue[t].state = "ReadyForLocal"}

OwnInit == Init /\ excused = FiledTwice

OwnNext ==
    /\ Next
    /\ excused' = excused \cup
         {t \in Ticket : LostAtClaim(t) \/ MovedInUse(t) \/ LaunchedAgain(t)}
    /\ excused' = excused \/ Cardinality(excused') <= MaxBroken

OwnSpec == OwnInit /\ [][OwnNext]_ownVars

OwnFairSpec == OwnSpec /\ Fairness
-----------------------------------------------------------------------------
\* As long as a process of a ticket lives, even one whose daemon crashed or
\* dropped it, no other process works on that ticket, and Linear keeps it
\* InProgressLocal: the state that makes every later daemon leave it alone
\* (start_ticket: check, worktree, state write, Popen).  It is so for every ticket
\* whose own lock nobody has broken, whatever becomes of the others.
OneOwner ==
    \A w \in Live : ticketOf[w] \notin excused =>
        /\ linear[ticketOf[w]] = "InProgressLocal"
        /\ \A v \in Live : ticketOf[v] = ticketOf[w] => v = w
=============================================================================
