------------------------------- MODULE Session -------------------------------
(* What the rest of the program sees of a connection to the pool, and relies  *)
(* on: when jobs come, when the pool has one, and when the miners are idled.  *)
(* PoolConnection and the connection of Shares both keep to it.               *)

VARIABLES
  link,   \* is there a connection: "down", "up" or being shut down, "shutting"
  ready,  \* pool::state is has_job, so that results are sent
  busy    \* the miners have a job of this connection

vars == <<link, ready, busy>>

Init == link = "down" /\ ready = FALSE /\ busy = FALSE

Connect ==
  /\ link = "down"
  /\ link' = "up"
  /\ UNCHANGED <<ready, busy>>

\* A job is accepted, also from a connection that is being shut down; until it is
\* published the miners have the one before.
Job ==
  /\ link # "down"
  /\ ready' = TRUE
  /\ busy' \in {busy, TRUE}
  /\ UNCHANGED link

Publish ==
  /\ ready
  /\ busy' = TRUE
  /\ UNCHANGED <<link, ready>>

\* The connection is given up in order, and nothing else changes yet,
Shut ==
  /\ link = "up"
  /\ link' = "shutting"
  /\ UNCHANGED <<ready, busy>>

\* or over an error, also one that kept it from coming up: no more results are sent.
\* The miners go on in either case.
Fail ==
  /\ link' = "shutting"
  /\ ready' = FALSE
  /\ UNCHANGED busy

\* The one event that idles the miners.
Close ==
  /\ link = "shutting"
  /\ link' = "down" /\ ready' = FALSE /\ busy' = FALSE

Next == Connect \/ Job \/ Publish \/ Shut \/ Fail \/ Close

Spec == Init /\ [][Next]_vars
=============================================================================
