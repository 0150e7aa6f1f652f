------------------------------ MODULE DotPool ------------------------------
(***************************************************************************)
(* The DNS-over-TLS connections kept between queries                       *)
(* (internal/dns64/dot.go): exchangeDoT, takeIdle, putIdle and Close, for  *)
(* one server.  A query takes an idle connection or dials one; one that    *)
(* was idle and fails is replaced by a dialed one, once.                   *)
(***************************************************************************)
EXTENDS Naturals, SequencesExt

CONSTANTS
  Queries,   \* goroutines that query the server
  Conns,     \* connections; one that was closed stands for the next one dialed
  MaxIdle    \* maxIdleDoTConnsPerEndpoint

VARIABLES
  open,      \* the connections that are open
  idle,      \* DoTQueryer.idle of the server, the last one put back at the end
  closed,    \* DoTQueryer.closed
  query      \* what each query is doing, and with which connection

vars == <<open, idle, closed, query>>

NotAsking == [at |-> "none"]

Init ==
  /\ open = {}
  /\ idle = << >>
  /\ closed = FALSE
  /\ query = [q \in Queries |-> NotAsking]

\* takeIdle
Take(q) ==
  /\ query[q] = NotAsking
  /\ IF idle = << >>
       THEN query' = [query EXCEPT ![q] = [at |-> "dialing"]] /\ UNCHANGED idle
       ELSE query' = [query EXCEPT ![q] = [at |-> "reusing", conn |-> Last(idle)]] /\ idle' = Front(idle)
  /\ UNCHANGED <<open, closed>>

\* The kept connection was closed by the server, or answered another query.
ReuseFails(q) ==
  /\ query[q].at = "reusing"
  /\ open' = open \ {query[q].conn}
  /\ query' = [query EXCEPT ![q] = [at |-> "dialing"]]
  /\ UNCHANGED <<idle, closed>>

Dial(q, conn) ==
  /\ query[q].at = "dialing"
  /\ conn \notin open
  /\ open' = open \cup {conn}
  /\ query' = [query EXCEPT ![q] = [at |-> "asking", conn |-> conn]]
  /\ UNCHANGED <<idle, closed>>

DialFails(q) ==
  /\ query[q].at = "dialing"
  /\ query' = [query EXCEPT ![q] = NotAsking]
  /\ UNCHANGED <<open, idle, closed>>

\* The dialed connection fails too, or its answer does not match.
AskFails(q) ==
  /\ query[q].at = "asking"
  /\ open' = open \ {query[q].conn}
  /\ query' = [query EXCEPT ![q] = NotAsking]
  /\ UNCHANGED <<idle, closed>>

\* Mutant: a query that ends after Close keeps its connection.
PutInto(conn) ==
  IF Len(idle) >= MaxIdle
    THEN open' = open \ {conn} /\ UNCHANGED idle
    ELSE idle' = Append(idle, conn) /\ UNCHANGED open

\* putIdle
Put(conn) ==
  IF closed \/ Len(idle) >= MaxIdle
    THEN open' = open \ {conn} /\ UNCHANGED idle
    ELSE idle' = Append(idle, conn) /\ UNCHANGED open

\* The query is answered.
Answered(q) ==
  /\ query[q].at \in {"reusing", "asking"}
  /\ Put(query[q].conn)
  /\ query' = [query EXCEPT ![q] = NotAsking]
  /\ UNCHANGED closed

Close ==
  /\ ~closed
  /\ closed' = TRUE
  /\ open' = open \ ToSet(idle)
  /\ idle' = << >>
  /\ UNCHANGED query

Next ==
  \/ \E q \in Queries : Take(q)
  \/ \E q \in Queries : ReuseFails(q)
  \/ \E q \in Queries, conn \in Conns : Dial(q, conn)
  \/ \E q \in Queries : DialFails(q)
  \/ \E q \in Queries : AskFails(q)
  \/ \E q \in Queries : Answered(q)
  \/ Close

Spec == Init /\ [][Next]_vars

-----------------------------------------------------------------------------
Using(q) == IF query[q].at \in {"reusing", "asking"} THEN {query[q].conn} ELSE {}

\* An open connection is kept or used by exactly one query, so that two queries never read
\* each other's answer and no connection is lost, whatever fails and also when the queryer is
\* closed while a query is out (dot.go:192-226).
EachHasOneOwner ==
  /\ open = ToSet(idle) \cup UNION {Using(q) : q \in Queries}
  /\ IsInjective(idle)
  /\ \A q \in Queries : Using(q) \cap ToSet(idle) = {}
  /\ \A p, q \in Queries : p # q => Using(p) \cap Using(q) = {}
  /\ closed => idle = << >>

=============================================================================
