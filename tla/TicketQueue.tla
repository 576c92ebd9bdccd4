----------------------------- MODULE TicketQueue -----------------------------
(* What the admission gate promises, without its tokens, clocks and pages: *)
(* one line of users, tickets for those at its head, and a house that a    *)
(* user enters with a ticket, by privilege or while there is room.         *)
EXTENDS Integers, Sequences, FiniteSets

CONSTANTS Users, Privileged, LeastCap

VARIABLES
  gate,     \* the gate is up
  cap,      \* how many the house is meant for
  line,     \* the users who wait, the first one first
  holders,  \* the users with a ticket
  inside    \* the users in the house

vars == <<gate, cap, line, holders, inside>>

Init ==
  /\ gate = FALSE /\ cap = LeastCap
  /\ line = << >> /\ holders = {} /\ inside = {}

Open ==
  /\ ~gate /\ gate' = TRUE
  /\ UNCHANGED <<cap, line, holders, inside>>

Room == Cardinality(inside) < cap

(* A ticket serves once. *)
Enter(u) ==
  /\ u \notin inside
  /\ ~gate \/ u \in holders \/ u \in Privileged \/ Room
  /\ inside' = inside \cup {u} /\ holders' = holders \ {u}
  /\ UNCHANGED <<gate, cap, line>>

Leave(u) ==
  /\ u \in inside /\ inside' = inside \ {u}
  /\ UNCHANGED <<gate, cap, line, holders>>

(* Only who is turned away joins, behind everybody else; a ticket that no  *)
(* longer serves is given up for the place.                                *)
Join(u) ==
  /\ gate /\ u \notin inside \cup Privileged /\ ~Room
  /\ \A i \in DOMAIN line : line[i] # u
  /\ line' = Append(line, u) /\ holders' = holders \ {u}
  /\ UNCHANGED <<gate, cap, inside>>

Lapse(u) ==
  /\ u \in holders /\ holders' = holders \ {u}
  /\ UNCHANGED <<gate, cap, line, inside>>

(* What is left of a line behind its first n users when some give up: the  *)
(* others, in their order.                                                 *)
LeftOf(left, n) ==
  \E at \in [DOMAIN left -> n + 1 .. Len(line)] :
    /\ \A i \in DOMAIN left : left[i] = line[at[i]]
    /\ \A i, j \in DOMAIN left : i < j => at[i] < at[j]

(* The first n get tickets, if with everybody inside and every ticket that *)
(* is out they fit under the new cap; some tickets lapse.                  *)
Admit(n) ==
  /\ cap' \in Nat /\ LeastCap <= cap'
  /\ n # 0 => Cardinality(inside) + Cardinality(holders) + n <= cap'
  /\ LeftOf(line', n)
  /\ \E lapsed \in SUBSET holders :
       holders' = (holders \ lapsed) \cup {line[i] : i \in 1 .. n}
  /\ UNCHANGED <<gate, inside>>

(* Everything but the house is forgotten, or the house too. *)
Reset ==
  /\ cap' = LeastCap /\ line' = << >> /\ holders' = {}
  /\ \/ UNCHANGED <<gate, inside>>
     \/ gate' = FALSE /\ inside' = {}

Next ==
  \/ Open \/ Reset
  \/ \E u \in Users : Enter(u) \/ Leave(u) \/ Join(u) \/ Lapse(u)
  \/ \E n \in 0 .. Len(line) : Admit(n)

Spec == Init /\ [][Next]_vars
=============================================================================
