------------------------------ MODULE Sessions ------------------------------
(***************************************************************************)
(* What the XDMCP master promises of a session id: it is offered to one    *)
(* terminal, begun at most once and only while that offer stands, and once *)
(* it is over, begun or not, it never comes back.  Ids are offered in      *)
(* order.  Nothing is said of packets, tables, timeouts or crashes.        *)
(***************************************************************************)
EXTENDS Integers

CONSTANTS
  Id,         \* a set of numbers
  Terminal,
  NoTerminal  \* none of them

VARIABLES
  phase,  \* of every id: "none", "offered", "open" or "over"
  owner   \* whom it was offered to

vars == <<phase, owner>>

Init ==
  /\ phase = [i \in Id |-> "none"]
  /\ owner = [i \in Id |-> NoTerminal]

\* any offers are withdrawn, any sessions end
Over(S) ==
  /\ \A i \in S : phase[i] \in {"offered", "open"}
  /\ phase' = [i \in Id |-> IF i \in S THEN "over" ELSE phase[i]]
  /\ UNCHANGED owner

\* t is offered a session; older offers may be withdrawn to make room.  An id may
\* be lost before t hears of it.
Offer(i, t, S, heard) ==
  /\ \A j \in Id : phase[j] # "none" => j < i
  /\ \A j \in S : phase[j] = "offered"
  /\ phase' = [j \in Id |-> IF j = i THEN (IF heard THEN "offered" ELSE "over")
                            ELSE IF j \in S THEN "over" ELSE phase[j]]
  /\ owner' = [owner EXCEPT ![i] = t]

\* the session of an offer begins in the place of others
Begin(i, S) ==
  /\ phase[i] = "offered"
  /\ \A j \in S : phase[j] = "open"
  /\ phase' = [j \in Id |-> IF j = i THEN "open" ELSE IF j \in S THEN "over" ELSE phase[j]]
  /\ UNCHANGED owner

Next ==
  \/ \E S \in SUBSET Id : Over(S)
  \/ \E i \in Id, t \in Terminal, S \in SUBSET Id, heard \in BOOLEAN : Offer(i, t, S, heard)
  \/ \E i \in Id, S \in SUBSET Id : Begin(i, S)

Spec == Init /\ [][Next]_vars
=============================================================================
