------------------------------ MODULE EventFeed ------------------------------
(***************************************************************************)
(* What the control plane's event stream promises to one of its clients.   *)
(*                                                                         *)
(* Events carry consecutive ids.  A client that joins after an id receives *)
(* every later event, each once and in order, until it leaves or is told   *)
(* to reconcile its state; it is told so only when more than Capacity      *)
(* events are waiting for it.  Nothing here says how events are kept.      *)
(* EventBroker is shown to implement this module.                          *)
(***************************************************************************)
EXTENDS Integers

CONSTANTS
  Subs,      \* the clients' subscriptions
  Capacity   \* how far behind a client may fall

VARIABLES
  latest,    \* id of the newest event, 0 before the first
  cursor,    \* the last id each subscription has received
  status     \* "none", "open", "closed" or "reconcile"

vars == <<latest, cursor, status>>

Init ==
  /\ latest = 0
  /\ cursor = [s \in Subs |-> 0]
  /\ status = [s \in Subs |-> "none"]

Publish ==
  /\ latest' = latest + 1
  /\ UNCHANGED <<cursor, status>>

\* A client joins after any id that is at most Capacity events old.
Join(s) ==
  /\ status[s] # "open"
  /\ \E after \in 0..latest :
       /\ latest - after <= Capacity
       /\ cursor' = [cursor EXCEPT ![s] = after]
  /\ status' = [status EXCEPT ![s] = "open"]
  /\ UNCHANGED latest

Deliver(s) ==
  /\ status[s] = "open"
  /\ cursor[s] < latest
  /\ cursor' = [cursor EXCEPT ![s] = @ + 1]
  /\ UNCHANGED <<latest, status>>

\* Only a client that is more than Capacity events behind is cut off.
CutOff(s) ==
  /\ status[s] = "open"
  /\ latest - cursor[s] > Capacity
  /\ status' = [status EXCEPT ![s] = "reconcile"]
  /\ UNCHANGED <<latest, cursor>>

Leave(s) ==
  /\ status[s] = "open"
  /\ status' = [status EXCEPT ![s] = "closed"]
  /\ UNCHANGED <<latest, cursor>>

Next ==
  \/ Publish
  \/ \E s \in Subs : Join(s) \/ Deliver(s) \/ CutOff(s) \/ Leave(s)

Spec == Init /\ [][Next]_vars
==============================================================================
