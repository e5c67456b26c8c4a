---------------------------- MODULE ServedOrders ----------------------------
(***************************************************************************)
(* What the operators of a campaign may rely on, whoever sends it and      *)
(* however often processes stop, die and take over from each other: they   *)
(* order it to be sent or have it stopped; one worker at a time serves an  *)
(* order; it sets a message off only for the latest order, while that one  *)
(* is open; and what it set off is handed over at most twice, the second   *)
(* time because the first reply was lost.                                  *)
(***************************************************************************)
EXTENDS Integers

CONSTANTS Workers, Addresses

VARIABLES
  orders,   \* how many orders were given: the latest one is number orders
  open,     \* the latest order is neither done nor stopped
  serves,   \* the order a worker serves, 0 when none
  tries,    \* the tries a worker has left for the message it set off
  handed    \* how many messages each address was handed

vars == <<orders, open, serves, tries, handed>>

Init ==
  /\ orders = 0
  /\ open = FALSE
  /\ serves = [w \in Workers |-> 0]
  /\ tries = [w \in Workers |-> 0]
  /\ handed = [a \in Addresses |-> 0]

Order ==
  /\ orders' = orders + 1
  /\ open' = TRUE
  /\ UNCHANGED <<serves, tries, handed>>

\* It was stopped, it failed, or it is done.
Close ==
  /\ open' = FALSE
  /\ UNCHANGED <<orders, serves, tries, handed>>

Take(w) ==
  /\ open
  /\ \A v \in Workers : serves[v] # orders
  /\ serves[w] = 0
  /\ serves' = [serves EXCEPT ![w] = orders]
  /\ UNCHANGED <<orders, open, tries, handed>>

SetOff(w) ==
  /\ open
  /\ serves[w] = orders
  /\ tries[w] = 0
  /\ tries' = [tries EXCEPT ![w] = 2]
  /\ UNCHANGED <<orders, open, serves, handed>>

HandOver(w, a) ==
  /\ \E left \in 0..tries[w] - 1 : tries' = [tries EXCEPT ![w] = left]
  /\ handed' = [handed EXCEPT ![a] = @ + 1]
  /\ UNCHANGED <<orders, open, serves>>

\* The message was refused, or its recipient has unsubscribed.
GiveUp(w) ==
  /\ tries' = [tries EXCEPT ![w] = 0]
  /\ UNCHANGED <<orders, open, serves, handed>>

\* Done, stopped or dead: the order is left to whoever takes it next.
Quit(w) ==
  /\ serves' = [serves EXCEPT ![w] = 0]
  /\ tries' = [tries EXCEPT ![w] = 0]
  /\ UNCHANGED <<orders, open, handed>>

Next ==
  \/ Order \/ Close
  \/ \E w \in Workers : Take(w) \/ SetOff(w) \/ GiveUp(w) \/ Quit(w)
  \/ \E w \in Workers, a \in Addresses : HandOver(w, a)

Spec == Init /\ [][Next]_vars

=============================================================================
