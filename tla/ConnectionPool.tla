--------------------------- MODULE ConnectionPool ---------------------------
(***************************************************************************)
(* What one argonaut listener promises its peers, with the accept loop,    *)
(* the semaphore channel and the bridge goroutines left out: connections   *)
(* arrive, at most Limit of them are served at a time, a connection is     *)
(* turned away only if it is not entitled to service or the pool is full,  *)
(* and every connection is eventually settled.  Listener implements it.    *)
(***************************************************************************)
EXTENDS Naturals, FiniteSets

CONSTANTS
  Conns,     \* the connections that peers may open, a finite set
  Limit      \* ARGONAUT_MAX_CONNECTIONS, at least 1

VARIABLES
  entitled,  \* the connections whose peer may use this listener
  pending,   \* connections that arrived and are not settled
  serving,   \* connections that hold one of the Limit slots
  settled    \* connections served to the end, or turned away

poolVars == <<entitled, pending, serving, settled>>

TypeOK ==
  /\ entitled \subseteq Conns
  /\ pending \subseteq Conns
  /\ serving \subseteq Conns
  /\ settled \subseteq Conns

Init ==
  /\ entitled \subseteq Conns
  /\ pending = {}
  /\ serving = {}
  /\ settled = {}

Arrive(c) ==
  /\ c \notin pending \cup serving \cup settled
  /\ pending' = pending \cup {c}
  /\ UNCHANGED <<entitled, serving, settled>>

Admit(c) ==
  /\ c \in pending \cap entitled
  /\ Cardinality(serving) < Limit
  /\ pending' = pending \ {c}
  /\ serving' = serving \cup {c}
  /\ UNCHANGED <<entitled, settled>>

TurnAway(c) ==
  /\ c \in pending
  /\ c \notin entitled \/ Cardinality(serving) = Limit
  /\ pending' = pending \ {c}
  /\ settled' = settled \cup {c}
  /\ UNCHANGED <<entitled, serving>>

Finish(c) ==
  /\ c \in serving
  /\ serving' = serving \ {c}
  /\ settled' = settled \cup {c}
  /\ UNCHANGED <<entitled, pending>>

Next == \E c \in Conns : Arrive(c) \/ Admit(c) \/ TurnAway(c) \/ Finish(c)

Safety == Init /\ [][Next]_poolVars

(* A pending connection is answered and a served one ends.                 *)
Liveness == \A c \in Conns : /\ WF_poolVars(Admit(c) \/ TurnAway(c))
                             /\ WF_poolVars(Finish(c))

Spec == Safety /\ Liveness
=============================================================================
