-------------------------- MODULE ConnectionReaper --------------------------
(***************************************************************************)
(* What a connection manager of the relay server promises, without lists,  *)
(* marks or time stamps: every admitted connection carries a deadline, a   *)
(* refresh moves the deadline, a doomed connection can no longer be saved, *)
(* and one pass of the reaper destroys exactly the doomed connections and  *)
(* those whose deadline has come.                                          *)
(***************************************************************************)
EXTENDS Integers

CONSTANTS
    Conn,           \* connection ids, each given to at most one connection
    FirstTimeout,   \* time a connection has until its first refresh
    LongTimeout,    \* time every refresh gives it
    StartTime,      \* clock when the server starts
    MaxTime         \* bound on the clock

VARIABLES
    active,         \* connections that exist and are not doomed
    doomed,         \* connections that exist and wait for the reaper
    spent,          \* ids that were given back
    deadline,       \* of the active connections, 0 for the others
    now             \* time of the last pass

vars == <<active, doomed, spent, deadline, now>>

TypeOK ==
    /\ active \subseteq Conn
    /\ doomed \subseteq Conn
    /\ spent \subseteq Conn
    /\ deadline \in [Conn -> Nat]
    /\ now \in StartTime..MaxTime

Init ==
    /\ active = {}
    /\ doomed = {}
    /\ spent = {}
    /\ deadline = [c \in Conn |-> 0]
    /\ now = StartTime

Unused(c) == c \in Conn \ (active \union doomed \union spent)

Admit(c) ==
    /\ Unused(c)
    /\ active' = active \union {c}
    /\ deadline' = [deadline EXCEPT ![c] = now + FirstTimeout]
    /\ UNCHANGED <<doomed, spent, now>>

(* The id was drawn, the connection could not be set up. *)
Abandon(c) ==
    /\ Unused(c)
    /\ spent' = spent \union {c}
    /\ UNCHANGED <<active, doomed, deadline, now>>

Refresh(c) ==
    /\ c \in active
    /\ deadline' = [deadline EXCEPT ![c] = now + LongTimeout]
    /\ UNCHANGED <<active, doomed, spent, now>>

Doom(c) ==
    /\ c \in active
    /\ active' = active \ {c}
    /\ doomed' = doomed \union {c}
    /\ deadline' = [deadline EXCEPT ![c] = 0]
    /\ UNCHANGED <<spent, now>>

Overdue(t) == {c \in active : deadline[c] <= t}

Reap(t) ==
    /\ now' = t
    /\ active' = active \ Overdue(t)
    /\ doomed' = {}
    /\ spent' = spent \union doomed \union Overdue(t)
    /\ deadline' = [c \in Conn |-> IF c \in active' THEN deadline[c] ELSE 0]

Next ==
    \/ \E c \in Conn : Admit(c) \/ Abandon(c) \/ Refresh(c) \/ Doom(c)
    \/ \E t \in now..MaxTime : Reap(t)

Spec == Init /\ [][Next]_vars

=============================================================================
