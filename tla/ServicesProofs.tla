--------------------------- MODULE ServicesProofs ---------------------------
(***************************************************************************)
(* Theorems about the services that share no state with each other: the    *)
(* NAT64 monitor, the administrator's session, the connections to a DNS    *)
(* server, the redacted credentials, the resolver, the watchdog, the run   *)
(* of the service and the event log.                                       *)
(***************************************************************************)
EXTENDS Services, Supervision, Sequences, FiniteSetTheorems, SequenceTheorems, TLAPS

-----------------------------------------------------------------------------
(***************************************************************************)
(* The NAT64 monitor.  A check that is on its way has read the prefix that *)
(* is set now, since nothing sets one while a check holds the lock; the    *)
(* check of an administrator belongs to the end of its change.  Where the  *)
(* change in progress stands says which of the prefixes that it moves      *)
(* between is set and which is in the file.                                *)
(***************************************************************************)
CheckIsCurrent ==
  /\ nat_check # Nat64!NoCheck => nat_check.requested = nat_manual
  /\ nat_check.by = "admin" => nat_op.at = "checked"

StatusIsCurrent ==
  /\ nat_status.manual = (nat_manual # nat_none)
  /\ nat_manual # nat_none /\ nat_status.healthy => nat_status.prefix = nat_manual

ChangeFollows ==
  \/ nat_op = Nat64!NoOp /\ nat_manual = nat_file
  \/ nat_op.at = "setting" /\ nat_op.before = nat_manual /\ nat_manual = nat_file
     /\ nat_op = [at |-> "setting", to |-> nat_op.to, before |-> nat_op.before]
  \/ nat_op.at \in {"saving", "undoing"} /\ nat_op.before = nat_file /\ nat_manual = nat_op.to
     /\ nat_op = [at |-> nat_op.at, to |-> nat_op.to, before |-> nat_op.before]
  \/ nat_op.at \in {"checking", "checked"} /\ nat_manual = nat_file
     /\ nat_op = [at |-> nat_op.at, to |-> nat_op.to, before |-> nat_op.before]

InForce == CheckIsCurrent /\ StatusIsCurrent /\ ChangeFollows

LEMMA InitInForce == Nat64!Init => InForce
BY DEF Nat64!Init, Nat64!Boot, Nat64!Degraded, Nat64!NoCheck, Nat64!NoOp, InForce, CheckIsCurrent,
       StatusIsCurrent, ChangeFollows

LEMMA StepInForce == InForce /\ [Nat64!Next]_(Nat64!vars) => InForce'
<1> SUFFICES ASSUME InForce, [Nat64!Next]_(Nat64!vars) PROVE InForce'
  OBVIOUS
<1> USE DEF InForce, CheckIsCurrent, StatusIsCurrent, ChangeFollows, Nat64!NoOp, Nat64!NoCheck
<1>1. CASE Nat64!CheckBegins
  BY <1>1 DEF Nat64!CheckBegins, Nat64!BeginCheck
<1>2. CASE Nat64!CheckFails
  BY <1>2 DEF Nat64!CheckFails, Nat64!Degraded, Nat64!AfterCheck
<1>3. ASSUME NEW found \in nat_prefixes, Nat64!CheckSucceeds(found)
      PROVE  InForce'
  BY <1>3 DEF Nat64!CheckSucceeds, Nat64!Healthy, Nat64!AfterCheck
<1>4. ASSUME NEW prefix, Nat64!Change(prefix)
      PROVE  InForce'
  BY <1>4 DEF Nat64!Change
<1>5. CASE Nat64!SetManual
  BY <1>5 DEF Nat64!SetManual, Nat64!Set, Nat64!Degraded
<1>6. CASE Nat64!Save
  BY <1>6 DEF Nat64!Save
<1>7. CASE Nat64!SaveFails
  BY <1>7 DEF Nat64!SaveFails
<1>8. CASE Nat64!Undo
  BY <1>8 DEF Nat64!Undo, Nat64!Set, Nat64!Degraded
<1>9. CASE Nat64!CheckChange
  BY <1>9 DEF Nat64!CheckChange, Nat64!BeginCheck
<1>10. CASE Nat64!Restart
  BY <1>10 DEF Nat64!Restart, Nat64!Degraded
<1>11. CASE UNCHANGED Nat64!vars
  BY <1>11 DEF Nat64!vars
<1> QED
  BY <1>1, <1>2, <1>3, <1>4, <1>5, <1>6, <1>7, <1>8, <1>9, <1>10, <1>11 DEF Nat64!Next

(***************************************************************************)
(* The published status is about the manual prefix that was set last, and  *)
(* between two changes that is the one in the file, whatever checks, saves *)
(* and restarts happen in between.                                         *)
(***************************************************************************)
THEOREM PrefixInForce == Nat64!Spec => []ManualIsInForce
<1>1. InForce => Nat64!ManualIsInForce
  BY DEF InForce, StatusIsCurrent, ChangeFollows, Nat64!ManualIsInForce, Nat64!NoOp
<1> QED BY InitInForce, StepInForce, <1>1, PTL DEF Nat64!Spec, ManualIsInForce

-----------------------------------------------------------------------------
(***************************************************************************)
(* The administrator's session.  Nothing is in memory while no service     *)
(* runs, so a reset of the password behind its back finds no session; and  *)
(* a save of the running service holds the password manager's mutex until  *)
(* the sessions are revoked.                                               *)
(***************************************************************************)
SessionIsCurrent ==
  /\ ~adm_up => adm_session = adm_none /\ adm_changing = adm_none
  /\ Access!NoneOutlivesItsPassword

LEMMA StepSession ==
  ASSUME adm_none \notin adm_browsers \cup {adm_console},
         SessionIsCurrent, [Access!Next]_(Access!vars)
  PROVE  SessionIsCurrent'
<1> USE DEF SessionIsCurrent, Access!NoneOutlivesItsPassword, Access!At, Access!Goes
<1>1. CASE Access!Start \/ Access!Stop \/ Access!ResetDirectly \/ Access!Expire
  BY <1>1 DEF Access!Start, Access!Stop, Access!ResetDirectly, Access!Expire
<1>2. ASSUME NEW b \in adm_browsers, Access!Authenticate(b) \/ Access!CreateFails(b) \/ Access!SaveFails(b)
      PROVE  SessionIsCurrent'
  BY <1>2 DEF Access!Authenticate, Access!CreateFails, Access!SaveFails
<1>3. ASSUME NEW b \in adm_browsers, Access!Create(b)
      PROVE  SessionIsCurrent'
  BY <1>3 DEF Access!Create
<1>4. ASSUME NEW b \in adm_browsers, NEW operation, Access!Admit(b, operation)
      PROVE  SessionIsCurrent'
  BY <1>4 DEF Access!Admit
<1>5. ASSUME NEW b \in adm_browsers, Access!Revoke(b)
      PROVE  SessionIsCurrent'
  BY <1>5 DEF Access!Revoke
<1>6. ASSUME NEW c \in Access!Callers, Access!Save(c)
      PROVE  SessionIsCurrent'
  BY <1>6 DEF Access!Save, Access!Callers
<1>7. ASSUME NEW c \in Access!Callers, Access!RevokeAll(c)
      PROVE  SessionIsCurrent'
  BY <1>7 DEF Access!RevokeAll
<1>8. CASE UNCHANGED Access!vars
  BY <1>8 DEF Access!vars
<1> QED
  BY <1>1, <1>2, <1>3, <1>4, <1>5, <1>6, <1>7, <1>8 DEF Access!Next

(***************************************************************************)
(* No session that was in force when a password was replaced is in force   *)
(* afterwards, whoever replaced it, also while the service was down.       *)
(***************************************************************************)
THEOREM SessionsEndWithPassword == Access!Spec => []NoneOutlivesItsPassword
<1>. adm_none \notin adm_browsers \cup {adm_console}
  BY AccessAssumption
<1>1. Access!Init => SessionIsCurrent
  BY DEF Access!Init, SessionIsCurrent, Access!NoneOutlivesItsPassword
<1>2. SessionIsCurrent /\ [Access!Next]_(Access!vars) => SessionIsCurrent'
  BY StepSession
<1>3. SessionIsCurrent => Access!NoneOutlivesItsPassword
  BY DEF SessionIsCurrent
<1> QED BY <1>1, <1>2, <1>3, PTL DEF Access!Spec, NoneOutlivesItsPassword

-----------------------------------------------------------------------------
(***************************************************************************)
(* Connections to a DNS server.  The stack of kept connections and the     *)
(* connections of the queries are apart, and together the open ones.       *)
(***************************************************************************)
QueryState ==
  [at : {"none", "dialing"}] \cup [at : {"reusing", "asking"}, conn : dot_conns]

Owned ==
  /\ dot_idle \in Seq(dot_conns)
  /\ dot_query \in [dot_queries -> QueryState]
  /\ Dot!EachHasOneOwner

LEMMA KeepLast ==
  ASSUME NEW C, NEW s \in Seq(C), NEW e \in C, Dot!IsInjective(s), e \notin Dot!ToSet(s)
  PROVE  /\ Append(s, e) \in Seq(C) /\ Append(s, e) # << >>
         /\ Dot!ToSet(Append(s, e)) = Dot!ToSet(s) \cup {e}
         /\ Dot!IsInjective(Append(s, e))
<1>1. /\ Len(s) \in Nat /\ DOMAIN s = 1 .. Len(s)
      /\ DOMAIN Append(s, e) = 1 .. Len(s) + 1
      /\ \A i \in 1 .. Len(s) : Append(s, e)[i] = s[i]
      /\ Append(s, e)[Len(s) + 1] = e
  OBVIOUS
<1>2. Dot!ToSet(Append(s, e)) = Dot!ToSet(s) \cup {e}
  BY <1>1 DEF Dot!ToSet
<1>3. \A i \in 1 .. Len(s) : s[i] # e
  BY <1>1 DEF Dot!ToSet
<1>4. Dot!IsInjective(Append(s, e))
  BY <1>1, <1>3 DEF Dot!IsInjective
<1> QED BY <1>1, <1>2, <1>4

LEMMA TakeLast ==
  ASSUME NEW C, NEW s \in Seq(C), s # << >>, Dot!IsInjective(s)
  PROVE  /\ Dot!Last(s) \in Dot!ToSet(s) /\ Dot!Last(s) \in C
         /\ Dot!Front(s) \in Seq(C)
         /\ Dot!ToSet(Dot!Front(s)) = Dot!ToSet(s) \ {Dot!Last(s)}
         /\ Dot!IsInjective(Dot!Front(s))
<1> DEFINE n == Len(s)
<1>1. n \in Nat \ {0} /\ DOMAIN s = 1 .. n /\ \A i \in 1 .. n : s[i] \in C
  OBVIOUS
<1>2. /\ Dot!Front(s) \in Seq(C)
      /\ DOMAIN Dot!Front(s) = 1 .. n - 1
      /\ \A i \in 1 .. n - 1 : Dot!Front(s)[i] = s[i]
  BY <1>1 DEF Dot!Front
<1>3. Dot!Last(s) = s[n]
  BY DEF Dot!Last
<1>4. \A i, j \in 1 .. n : s[i] = s[j] => i = j
  BY <1>1 DEF Dot!IsInjective
<1> HIDE DEF n
<1>5. Dot!ToSet(Dot!Front(s)) = Dot!ToSet(s) \ {s[n]}
  BY <1>1, <1>2, <1>4 DEF Dot!ToSet
<1>6. Dot!IsInjective(Dot!Front(s))
  BY <1>1, <1>2, <1>4 DEF Dot!IsInjective
<1>7. Dot!Last(s) \in Dot!ToSet(s) /\ Dot!Last(s) \in C
  BY <1>1, <1>3 DEF Dot!ToSet
<1> QED BY <1>2, <1>3, <1>5, <1>6, <1>7

\* A step of one query leaves the connections of the others with them.
LEMMA OthersKeep ==
  ASSUME Owned, NEW q \in dot_queries, NEW next \in QueryState,
         dot_query' = [dot_query EXCEPT ![q] = next]
  PROVE  /\ dot_query' \in [dot_queries -> QueryState]
         /\ \A p \in dot_queries \ {q} : Dot!Using(p)' = Dot!Using(p)
         /\ Dot!Using(q)' = IF next.at \in {"reusing", "asking"} THEN {next.conn} ELSE {}
BY DEF Owned, Dot!Using

\* A connection that a query lets go is closed or goes back to the stack; one that it gets was
\* not open or leaves the stack.
LEMMA OwnedAgain ==
  ASSUME Owned, NEW q \in dot_queries, dot_query' \in [dot_queries -> QueryState],
         dot_idle' \in Seq(dot_conns), Dot!IsInjective(dot_idle'),
         dot_closed' => dot_idle' = << >>,
         \A p \in dot_queries \ {q} : Dot!Using(p)' = Dot!Using(p),
         dot_open' = Dot!ToSet(dot_idle') \cup Dot!Using(q)'
                       \cup UNION {Dot!Using(p) : p \in dot_queries \ {q}},
         Dot!Using(q)' \cap Dot!ToSet(dot_idle') = {},
         \A p \in dot_queries \ {q} :
           /\ Dot!Using(p) \cap Dot!ToSet(dot_idle') = {}
           /\ Dot!Using(p) \cap Dot!Using(q)' = {}
  PROVE  Owned'
<1>1. dot_open' = Dot!ToSet(dot_idle') \cup UNION {Dot!Using(p)' : p \in dot_queries}
  OBVIOUS
<1>2. \A p \in dot_queries : Dot!Using(p)' \cap Dot!ToSet(dot_idle') = {}
  OBVIOUS
<1>3. \A p, r \in dot_queries : p # r => Dot!Using(p)' \cap Dot!Using(r)' = {}
  BY DEF Owned, Dot!EachHasOneOwner
<1>4. Dot!EachHasOneOwner'
  BY <1>1, <1>2, <1>3 DEF Dot!EachHasOneOwner
<1> QED BY <1>4 DEF Owned

LEMMA TakeOwned ==
  ASSUME Owned, NEW q \in dot_queries, Dot!Take(q)
  PROVE  Owned'
<1>0. /\ dot_idle \in Seq(dot_conns) /\ Dot!IsInjective(dot_idle) /\ dot_closed' = dot_closed
      /\ dot_open' = dot_open
      /\ dot_open = Dot!ToSet(dot_idle) \cup UNION {Dot!Using(p) : p \in dot_queries}
      /\ \A p \in dot_queries : Dot!Using(p) \cap Dot!ToSet(dot_idle) = {}
      /\ dot_closed => dot_idle = << >>
  BY DEF Owned, Dot!EachHasOneOwner, Dot!Take
<1>1. Dot!Using(q) = {}
  BY DEF Dot!Take, Dot!NotAsking, Dot!Using
<1>2. CASE dot_idle = << >>
  <2> DEFINE next == [at |-> "dialing"]
  <2>1. next \in QueryState /\ dot_query' = [dot_query EXCEPT ![q] = next] /\ dot_idle' = dot_idle
    BY <1>2 DEF QueryState, Dot!Take
  <2>2. next.at \notin {"reusing", "asking"}
    OBVIOUS
  <2> HIDE DEF next
  <2>3. /\ dot_query' \in [dot_queries -> QueryState] /\ Dot!Using(q)' = {}
        /\ \A p \in dot_queries \ {q} : Dot!Using(p)' = Dot!Using(p)
    BY <2>1, <2>2, OthersKeep
  <2> QED BY <1>0, <1>1, <2>1, <2>3, OwnedAgain
<1>3. CASE dot_idle # << >>
  <2> DEFINE conn == Dot!Last(dot_idle)
  <2> DEFINE next == [at |-> "reusing", conn |-> conn]
  <2>1. /\ conn \in Dot!ToSet(dot_idle) /\ conn \in dot_conns
        /\ Dot!Front(dot_idle) \in Seq(dot_conns)
        /\ Dot!ToSet(Dot!Front(dot_idle)) = Dot!ToSet(dot_idle) \ {conn}
        /\ Dot!IsInjective(Dot!Front(dot_idle))
    BY <1>0, <1>3, TakeLast
  <2>2. dot_query' = [dot_query EXCEPT ![q] = next] /\ dot_idle' = Dot!Front(dot_idle)
    BY <1>3 DEF Dot!Take
  <2> HIDE DEF conn
  <2>3. next \in QueryState /\ next.at = "reusing" /\ next.conn = conn
    BY <2>1 DEF QueryState
  <2> HIDE DEF next
  <2>4. /\ dot_query' \in [dot_queries -> QueryState] /\ Dot!Using(q)' = {conn}
        /\ \A p \in dot_queries \ {q} : Dot!Using(p)' = Dot!Using(p)
    BY <2>2, <2>3, OthersKeep
  <2>5. ~dot_closed'
    BY <1>0, <1>3
  <2>6. /\ dot_open' = Dot!ToSet(dot_idle') \cup {conn}
                         \cup UNION {Dot!Using(p) : p \in dot_queries \ {q}}
        /\ \A p \in dot_queries : conn \notin Dot!Using(p)
    BY <1>0, <1>1, <2>1, <2>2
  <2>7. /\ Dot!IsInjective(dot_idle') /\ dot_idle' \in Seq(dot_conns)
        /\ Dot!Using(q)' \cap Dot!ToSet(dot_idle') = {}
        /\ \A p \in dot_queries \ {q} : /\ Dot!Using(p) \cap Dot!ToSet(dot_idle') = {}
                                        /\ Dot!Using(p) \cap Dot!Using(q)' = {}
    BY <1>0, <2>1, <2>2, <2>4, <2>6
  <2> QED BY <2>4, <2>5, <2>6, <2>7, OwnedAgain
<1> QED BY <1>2, <1>3

\* A query closes the connection it has, if any, and asks no more or dials another.
LEMMA CloseOwned ==
  ASSUME Owned, NEW q \in dot_queries, NEW next \in QueryState,
         next.at \notin {"reusing", "asking"},
         dot_query' = [dot_query EXCEPT ![q] = next],
         dot_open' = dot_open \ Dot!Using(q), UNCHANGED <<dot_idle, dot_closed>>
  PROVE  Owned'
<1>1. /\ dot_query' \in [dot_queries -> QueryState] /\ Dot!Using(q)' = {}
      /\ \A p \in dot_queries \ {q} : Dot!Using(p)' = Dot!Using(p)
  BY OthersKeep
<1>2. /\ dot_idle \in Seq(dot_conns) /\ Dot!IsInjective(dot_idle)
      /\ dot_open = Dot!ToSet(dot_idle) \cup UNION {Dot!Using(p) : p \in dot_queries}
      /\ \A p \in dot_queries : Dot!Using(p) \cap Dot!ToSet(dot_idle) = {}
      /\ \A p, r \in dot_queries : p # r => Dot!Using(p) \cap Dot!Using(r) = {}
      /\ dot_closed => dot_idle = << >>
  BY DEF Owned, Dot!EachHasOneOwner
<1>3. dot_open' = Dot!ToSet(dot_idle) \cup UNION {Dot!Using(p) : p \in dot_queries \ {q}}
  BY <1>2
<1> QED BY <1>1, <1>2, <1>3, OwnedAgain

LEMMA FailsOwned ==
  ASSUME Owned, NEW q \in dot_queries,
         Dot!ReuseFails(q) \/ Dot!DialFails(q) \/ Dot!AskFails(q)
  PROVE  Owned'
<1>1. [at |-> "dialing"] \in QueryState /\ Dot!NotAsking \in QueryState
      /\ [at |-> "dialing"].at \notin {"reusing", "asking"}
      /\ Dot!NotAsking.at \notin {"reusing", "asking"}
  BY DEF QueryState, Dot!NotAsking
<1>2. UNCHANGED <<dot_idle, dot_closed>> /\ dot_open' = dot_open \ Dot!Using(q)
  BY DEF Dot!ReuseFails, Dot!DialFails, Dot!AskFails, Dot!Using
<1>3. \/ dot_query' = [dot_query EXCEPT ![q] = [at |-> "dialing"]]
      \/ dot_query' = [dot_query EXCEPT ![q] = Dot!NotAsking]
  BY DEF Dot!ReuseFails, Dot!DialFails, Dot!AskFails
<1> QED BY <1>1, <1>2, <1>3, CloseOwned

LEMMA DialOwned ==
  ASSUME Owned, NEW q \in dot_queries, NEW conn \in dot_conns, Dot!Dial(q, conn)
  PROVE  Owned'
<1> DEFINE next == [at |-> "asking", conn |-> conn]
<1>1. next \in QueryState /\ next.at = "asking" /\ next.conn = conn
  BY DEF QueryState
<1>2. /\ dot_query' = [dot_query EXCEPT ![q] = next] /\ dot_open' = dot_open \cup {conn}
      /\ conn \notin dot_open /\ UNCHANGED <<dot_idle, dot_closed>>
      /\ Dot!Using(q) = {}
  BY DEF Dot!Dial, Dot!Using
<1> HIDE DEF next
<1>3. /\ dot_query' \in [dot_queries -> QueryState] /\ Dot!Using(q)' = {conn}
      /\ \A p \in dot_queries \ {q} : Dot!Using(p)' = Dot!Using(p)
  BY <1>1, <1>2, OthersKeep
<1>4. /\ dot_idle \in Seq(dot_conns) /\ Dot!IsInjective(dot_idle)
      /\ dot_open = Dot!ToSet(dot_idle) \cup UNION {Dot!Using(p) : p \in dot_queries}
      /\ \A p \in dot_queries : Dot!Using(p) \cap Dot!ToSet(dot_idle) = {}
      /\ dot_closed => dot_idle = << >>
  BY DEF Owned, Dot!EachHasOneOwner
<1>5. conn \notin Dot!ToSet(dot_idle) /\ \A p \in dot_queries : conn \notin Dot!Using(p)
  BY <1>2, <1>4
<1>6. dot_open' = Dot!ToSet(dot_idle) \cup {conn}
                    \cup UNION {Dot!Using(p) : p \in dot_queries \ {q}}
  BY <1>2, <1>4
<1> QED BY <1>2, <1>3, <1>4, <1>5, <1>6, OwnedAgain

LEMMA AnsweredOwned ==
  ASSUME Owned, NEW q \in dot_queries, Dot!Answered(q)
  PROVE  Owned'
<1> DEFINE conn == dot_query[q].conn
<1>1. /\ dot_query' = [dot_query EXCEPT ![q] = Dot!NotAsking] /\ UNCHANGED dot_closed
      /\ Dot!Put(conn) /\ Dot!Using(q) = {conn}
  BY DEF Dot!Answered, Dot!Using
<1>2. Dot!NotAsking \in QueryState /\ Dot!NotAsking.at \notin {"reusing", "asking"}
  BY DEF QueryState, Dot!NotAsking
<1>3. conn \in dot_conns
  <2>1. dot_query[q] \in QueryState /\ dot_query[q].at \in {"reusing", "asking"}
    BY DEF Owned, Dot!Answered
  <2> QED BY <2>1 DEF QueryState
<1> HIDE DEF conn
<1>4. CASE dot_open' = dot_open \ {conn} /\ UNCHANGED dot_idle
  BY <1>1, <1>2, <1>4, CloseOwned
<1>5. CASE ~dot_closed /\ dot_idle' = Append(dot_idle, conn) /\ UNCHANGED dot_open
  <2>1. /\ dot_query' \in [dot_queries -> QueryState] /\ Dot!Using(q)' = {}
        /\ \A p \in dot_queries \ {q} : Dot!Using(p)' = Dot!Using(p)
    BY <1>1, <1>2, OthersKeep
  <2>2. /\ dot_idle \in Seq(dot_conns) /\ Dot!IsInjective(dot_idle)
        /\ dot_open = Dot!ToSet(dot_idle) \cup UNION {Dot!Using(p) : p \in dot_queries}
        /\ \A p \in dot_queries : Dot!Using(p) \cap Dot!ToSet(dot_idle) = {}
        /\ \A p, r \in dot_queries : p # r => Dot!Using(p) \cap Dot!Using(r) = {}
    BY DEF Owned, Dot!EachHasOneOwner
  <2>3. conn \notin Dot!ToSet(dot_idle)
    BY <1>1, <2>2
  <2>4. /\ dot_idle' \in Seq(dot_conns) /\ Dot!IsInjective(dot_idle')
        /\ Dot!ToSet(dot_idle') = Dot!ToSet(dot_idle) \cup {conn}
    BY <1>3, <1>5, <2>2, <2>3, KeepLast
  <2>5. dot_open' = Dot!ToSet(dot_idle') \cup {} \cup UNION {Dot!Using(p) : p \in dot_queries \ {q}}
    BY <1>1, <1>5, <2>2, <2>4
  <2>6. \A p \in dot_queries \ {q} : Dot!Using(p) \cap Dot!ToSet(dot_idle') = {}
    BY <1>1, <2>2, <2>4
  <2> QED BY <1>1, <1>5, <2>1, <2>4, <2>5, <2>6, OwnedAgain
<1> QED BY <1>1, <1>4, <1>5 DEF Dot!Put

LEMMA CloseAllOwned ==
  ASSUME Owned, Dot!Close
  PROVE  Owned'
<1>1. /\ dot_idle' = << >> /\ dot_query' = dot_query /\ dot_open' = dot_open \ Dot!ToSet(dot_idle)
      /\ dot_idle' \in Seq(dot_conns)
  BY DEF Dot!Close
<1>2. /\ dot_query \in [dot_queries -> QueryState]
      /\ dot_open = Dot!ToSet(dot_idle) \cup UNION {Dot!Using(p) : p \in dot_queries}
      /\ \A p \in dot_queries : Dot!Using(p) \cap Dot!ToSet(dot_idle) = {}
      /\ \A p, r \in dot_queries : p # r => Dot!Using(p) \cap Dot!Using(r) = {}
  BY DEF Owned, Dot!EachHasOneOwner
<1>3. Dot!ToSet(dot_idle') = {} /\ Dot!IsInjective(dot_idle')
  BY <1>1 DEF Dot!ToSet, Dot!IsInjective
<1>4. \A p \in dot_queries : Dot!Using(p)' = Dot!Using(p)
  BY <1>1 DEF Dot!Using
<1>5. dot_open' = UNION {Dot!Using(p) : p \in dot_queries}
  BY <1>1, <1>2
<1>6. Dot!EachHasOneOwner'
  BY <1>1, <1>2, <1>3, <1>4, <1>5 DEF Dot!EachHasOneOwner
<1> QED BY <1>1, <1>2, <1>6 DEF Owned

LEMMA StepOwned == Owned /\ [Dot!Next]_(Dot!vars) => Owned'
<1>1. ASSUME Owned, UNCHANGED Dot!vars PROVE Owned'
  BY <1>1 DEF Dot!vars, Owned, Dot!EachHasOneOwner, Dot!Using
<1> QED
  BY <1>1, TakeOwned, FailsOwned, DialOwned, AnsweredOwned, CloseAllOwned DEF Dot!Next

(***************************************************************************)
(* An open connection is kept or used by exactly one query, also when the  *)
(* queryer is closed while queries are out, for every number of queries    *)
(* and every limit of kept connections.                                    *)
(***************************************************************************)
THEOREM OneOwnerEach == Dot!Spec => []EachHasOneOwner
<1>1. Dot!Init => Owned
  <2> SUFFICES ASSUME Dot!Init PROVE Owned
    OBVIOUS
  <2>1. /\ dot_idle = << >> /\ dot_idle \in Seq(dot_conns) /\ dot_open = {}
        /\ dot_query \in [dot_queries -> QueryState]
        /\ \A q \in dot_queries : Dot!Using(q) = {}
    BY DEF Dot!Init, Dot!NotAsking, QueryState, Dot!Using
  <2>2. Dot!ToSet(dot_idle) = {} /\ Dot!IsInjective(dot_idle)
    BY <2>1 DEF Dot!ToSet, Dot!IsInjective
  <2> QED BY <2>1, <2>2 DEF Owned, Dot!EachHasOneOwner
<1>2. Owned => Dot!EachHasOneOwner
  BY DEF Owned
<1> QED BY <1>1, StepOwned, <1>2, PTL DEF Dot!Spec, EachHasOneOwner

-----------------------------------------------------------------------------
(***************************************************************************)
(* Redacted credentials.  While no two operations on one node overlapped   *)
(* and none had two failing calls, an operation knows what its node had,   *)
(* and a credential is counted for the nodes that have it, one that is     *)
(* between the service's answer and the two calls of the log apart: it is  *)
(* counted for what it had, and then for nothing.                          *)
(***************************************************************************)
Had == sec_credentials \cup {sec_open, sec_gone}

SecretCall ==
  [at : {"called", "releases", "registers"}, kind : Secrets!Kinds, node : sec_nodes,
   next : Had, had : Had]

Calling(c, n) == sec_call[c] # Secrets!Idle /\ sec_call[c].node = n
Committed(c, n) == Calling(c, n) /\ sec_call[c].at # "called"

HasCounted(n, s) ==
  \/ \E c \in sec_callers : Calling(c, n) /\ sec_call[c].at = "releases" /\ sec_call[c].had = s
  \/ sec_carried[n] = s /\ \A c \in sec_callers : ~Committed(c, n)

Sharers(s) == {n \in sec_nodes : HasCounted(n, s)}

SecretsTyped ==
  /\ sec_carried \in [sec_nodes -> Had] /\ sec_saved \in [sec_nodes -> Had]
  /\ sec_count \in [sec_credentials -> Nat]
  /\ sec_call \in [sec_callers -> {Secrets!Idle} \cup SecretCall]

OneCall ==
  \A n \in sec_nodes, c, d \in sec_callers : Calling(c, n) /\ Calling(d, n) => c = d

KnowsItsNode ==
  \A n \in sec_nodes, c \in sec_callers : Calling(c, n) =>
    /\ sec_call[c].at = "called" =>
         sec_call[c].had = IF sec_call[c].kind = "create" THEN sec_gone ELSE sec_carried[n]
    /\ sec_call[c].at # "called" => sec_call[c].next = sec_carried[n]

Exact == OneCall /\ KnowsItsNode /\ \A s \in sec_credentials : sec_count[s] = Cardinality(Sharers(s))

Orderly == ~sec_crossed /\ ~sec_unsettled
Counts == SecretsTyped /\ (Orderly => Exact)

\* what the instance takes from FiniteSets is what this module takes from it
LEMMA SameCardinality == \A S : Secrets!Cardinality(S) = Cardinality(S)
BY DEF Secrets!Cardinality, Cardinality

LEMMA CallStages ==
  \A u \in {Secrets!Idle} \cup SecretCall :
    /\ u # Secrets!Idle <=> u \in SecretCall
    /\ u # Secrets!Idle <=> u.at \in {"called", "releases", "registers"}
    /\ u = Secrets!Idle => u.at = "idle"
<1>1. Secrets!Idle.at = "idle"
  BY DEF Secrets!Idle
<1>2. \A u \in SecretCall : u.at \in {"called", "releases", "registers"}
  BY DEF SecretCall
<1> QED BY <1>1, <1>2

LEMMA SharersFinite ==
  ASSUME SecretsAreApart, NEW s
  PROVE  IsFiniteSet(Sharers(s)) /\ Cardinality(Sharers(s)) \in Nat
<1>1. Sharers(s) \subseteq sec_nodes /\ IsFiniteSet(sec_nodes)
  BY DEF Sharers, SecretsAreApart
<1>2. IsFiniteSet(Sharers(s))
  BY <1>1, FS_Subset
<1> QED BY <1>2, FS_CardinalityType

LEMMA BeginCounts ==
  ASSUME SecretsAreApart, Counts, NEW c \in sec_callers, NEW n \in sec_nodes,
         NEW kind \in Secrets!Kinds, NEW next \in Had, Secrets!Begin(c, n, kind, next)
  PROVE  Counts'
<1> DEFINE called == [at |-> "called", kind |-> kind, node |-> n, next |-> next,
                      had |-> IF kind = "create" THEN sec_gone ELSE sec_carried[n]]
<1>1. /\ sec_call[c] = Secrets!Idle /\ sec_call' = [sec_call EXCEPT ![c] = called]
      /\ UNCHANGED <<sec_carried, sec_saved, sec_count, sec_unsettled>>
      /\ sec_crossed' = (sec_crossed \/ \E d \in sec_callers : Calling(d, n))
  BY DEF Secrets!Begin, Secrets!Goes, Secrets!Busy, Calling
<1>2. called \in SecretCall
  BY DEF SecretCall, Had, Counts, SecretsTyped
<1>3. /\ called.at = "called" /\ called.node = n /\ called.kind = kind /\ called.next = next
      /\ called.had = IF called.kind = "create" THEN sec_gone ELSE sec_carried[n]
  OBVIOUS
<1> HIDE DEF called
<1>4. SecretsTyped'
  BY <1>1, <1>2 DEF Counts, SecretsTyped
<1>5. called # Secrets!Idle
  BY <1>2, CallStages
<1>6. /\ sec_call'[c] = called
      /\ \A d \in sec_callers \ {c} : sec_call'[d] = sec_call[d]
  BY <1>1 DEF Counts, SecretsTyped
<1>7. ASSUME Orderly' PROVE Exact'
  <2>1. Orderly /\ Exact /\ \A d \in sec_callers : ~Calling(d, n)
    BY <1>1, <1>7 DEF Counts, Orderly
  <2>3. OneCall'
    BY <1>1, <1>3, <1>5, <1>6, <2>1 DEF Exact, OneCall, Calling
  <2>4. KnowsItsNode'
    BY <1>1, <1>3, <1>5, <1>6, <2>1 DEF Exact, KnowsItsNode, Calling
  <2>5. \A m \in sec_nodes : \A s : HasCounted(m, s)' = HasCounted(m, s)
    BY <1>1, <1>3, <1>5, <1>6 DEF HasCounted, Committed, Calling
  <2>6. \A s : Sharers(s)' = Sharers(s)
    BY <2>5 DEF Sharers
  <2> QED BY <1>1, <2>1, <2>3, <2>4, <2>6 DEF Exact
<1> QED BY <1>4, <1>7 DEF Counts

\* A call that goes on from the service's answer.
LEMMA CalledStage ==
  ASSUME Counts, NEW c \in sec_callers, sec_call[c].at = "called"
  PROVE  /\ sec_call[c] \in SecretCall /\ sec_call[c] # Secrets!Idle
         /\ sec_call[c].node \in sec_nodes /\ sec_call[c].next \in Had
         /\ sec_call[c].kind \in Secrets!Kinds
         /\ \A d \in sec_callers : sec_call[d] \in {Secrets!Idle} \cup SecretCall
<1>1. /\ sec_call[c] \in {Secrets!Idle} \cup SecretCall
      /\ \A d \in sec_callers : sec_call[d] \in {Secrets!Idle} \cup SecretCall
  BY DEF Counts, SecretsTyped
<1>2. sec_call[c] \in SecretCall /\ sec_call[c] # Secrets!Idle
  BY <1>1, CallStages
<1> QED BY <1>1, <1>2 DEF SecretCall

LEMMA RefuseCounts ==
  ASSUME SecretsAreApart, Counts, NEW c \in sec_callers, Secrets!Refuse(c)
  PROVE  Counts'
<1>1. /\ sec_call[c].at = "called" /\ sec_call' = [sec_call EXCEPT ![c] = Secrets!Idle]
      /\ sec_saved' \in {sec_saved, sec_carried}
      /\ UNCHANGED <<sec_carried, sec_count, sec_crossed, sec_unsettled>>
  BY DEF Secrets!Refuse, Secrets!Goes, Secrets!OnlyServiceActs
<1>2. SecretsTyped'
  BY <1>1 DEF Counts, SecretsTyped
<1>3. /\ \A d \in sec_callers \ {c} : sec_call'[d] = sec_call[d]
      /\ sec_call'[c] = Secrets!Idle
  BY <1>1 DEF Counts, SecretsTyped
<1>4. ASSUME Orderly' PROVE Exact'
  <2>1. Exact
    BY <1>1, <1>4 DEF Counts, Orderly
  <2>2. OneCall' /\ KnowsItsNode'
    BY <1>1, <1>3, <2>1 DEF Exact, OneCall, KnowsItsNode, Calling
  <2>3. \A m \in sec_nodes : \A s : HasCounted(m, s)' = HasCounted(m, s)
    BY <1>1, <1>3 DEF HasCounted, Committed, Calling
  <2>4. \A s : Sharers(s)' = Sharers(s)
    BY <2>3 DEF Sharers
  <2> QED BY <1>1, <2>1, <2>2, <2>4 DEF Exact
<1> QED BY <1>2, <1>4 DEF Counts

\* Of an operation with two failing calls only the types are of interest.
LEMMA TwiceFailedCounts ==
  ASSUME Counts, NEW c \in sec_callers,
         Secrets!UndoFails(c) \/ Secrets!SeemsDone(c) \/ Secrets!ComesBackUnsaved(c)
  PROVE  Counts'
<1>. PICK u : u = sec_call[c]
  OBVIOUS
<1>1. u \in SecretCall /\ u.node \in sec_nodes /\ u.next \in Had
  <2>1. u.at = "called"
    BY DEF Secrets!UndoFails, Secrets!SeemsDone, Secrets!ComesBackUnsaved
  <2> QED BY <2>1, CalledStage
<1>2. sec_unsettled' = TRUE /\ UNCHANGED sec_count
  BY DEF Secrets!UndoFails, Secrets!SeemsDone, Secrets!ComesBackUnsaved, Secrets!OnlyServiceActs
<1>3. sec_carried' \in {sec_carried, [sec_carried EXCEPT ![u.node] = u.next]}
  BY DEF Secrets!UndoFails, Secrets!SeemsDone, Secrets!ComesBackUnsaved, Secrets!Has
<1>4. sec_saved' \in {sec_saved, [sec_carried EXCEPT ![u.node] = sec_gone]}
  BY DEF Secrets!UndoFails, Secrets!SeemsDone, Secrets!ComesBackUnsaved
<1>5. \/ sec_call' = [sec_call EXCEPT ![c] = Secrets!Idle]
      \/ sec_call' = [sec_call EXCEPT ![c] = [u EXCEPT !.at = "releases", !.next = sec_open]]
  BY DEF Secrets!UndoFails, Secrets!SeemsDone, Secrets!ComesBackUnsaved, Secrets!Goes
<1>6. [u EXCEPT !.at = "releases", !.next = sec_open] \in SecretCall
  BY <1>1 DEF SecretCall, Had
<1>7. sec_carried' \in [sec_nodes -> Had] /\ sec_saved' \in [sec_nodes -> Had]
  <2>1. sec_gone \in Had
    BY DEF Had
  <2> QED BY <1>1, <1>3, <1>4, <2>1 DEF Counts, SecretsTyped
<1>8. SecretsTyped'
  BY <1>2, <1>5, <1>6, <1>7 DEF Counts, SecretsTyped
<1> QED BY <1>2, <1>8 DEF Counts, Orderly

LEMMA CommitCounts ==
  ASSUME SecretsAreApart, Counts, NEW c \in sec_callers, Secrets!Commit(c)
  PROVE  Counts'
<1>. PICK u : u = sec_call[c]
  OBVIOUS
<1>. PICK n : n = u.node
  OBVIOUS
<1>1. /\ u \in SecretCall /\ u.at = "called" /\ n \in sec_nodes /\ u.next \in Had
      /\ u # Secrets!Idle /\ UNCHANGED <<sec_count, sec_crossed, sec_unsettled>>
      /\ \A d \in sec_callers : sec_call[d] \in {Secrets!Idle} \cup SecretCall
  <2>1. u.at = "called" /\ UNCHANGED <<sec_count, sec_crossed, sec_unsettled>>
    BY DEF Secrets!Commit, Secrets!OnlyServiceActs
  <2> QED BY <2>1, CalledStage
<1>2. Calling(c, n)
  BY <1>1 DEF Calling
<1>3. /\ u.kind = "create" <=> sec_carried[n] = sec_gone
      /\ sec_carried' = [sec_carried EXCEPT ![n] = u.next] /\ sec_saved' = sec_carried'
      /\ sec_call' = [sec_call EXCEPT ![c] = [u EXCEPT !.at = "releases"]]
  BY DEF Secrets!Commit, Secrets!Has, Secrets!Goes
<1> DEFINE v == [u EXCEPT !.at = "releases"]
<1>4. /\ v \in SecretCall /\ v.at = "releases" /\ v.node = n /\ v.had = u.had /\ v.next = u.next
  BY <1>1 DEF SecretCall
<1>5. /\ \A d \in sec_callers \ {c} : sec_call'[d] = sec_call[d]
      /\ sec_call'[c] = v /\ v # Secrets!Idle
      /\ sec_carried'[n] = u.next
      /\ \A m \in sec_nodes \ {n} : sec_carried'[m] = sec_carried[m]
  BY <1>1, <1>3, <1>4, CallStages DEF Counts, SecretsTyped
<1> HIDE DEF v
<1>6. SecretsTyped'
  BY <1>1, <1>3, <1>4 DEF Counts, SecretsTyped, v
<1>7. ASSUME Orderly' PROVE Exact'
  <2>1. Exact
    BY <1>1, <1>7 DEF Counts, Orderly
  <2>2. \A d \in sec_callers : Calling(d, n) => d = c
    BY <1>1, <1>2, <2>1 DEF Exact, OneCall
  <2>3. u.had = sec_carried[n]
    BY <1>1, <1>2, <1>3, <2>1 DEF Exact, KnowsItsNode
  <2>4. \A d \in sec_callers : \A m : Calling(d, m)' = Calling(d, m)
    BY <1>1, <1>4, <1>5 DEF Calling
  <2>5. OneCall'
    BY <2>1, <2>4 DEF Exact, OneCall
  <2>6. KnowsItsNode'
    <3> SUFFICES ASSUME NEW m \in sec_nodes, NEW d \in sec_callers, Calling(d, m)
                 PROVE  /\ sec_call'[d].at = "called" =>
                             sec_call'[d].had = IF sec_call'[d].kind = "create"
                                                  THEN sec_gone ELSE sec_carried'[m]
                        /\ sec_call'[d].at # "called" => sec_call'[d].next = sec_carried'[m]
      BY <2>4 DEF KnowsItsNode
    <3>1. CASE d = c
      BY <1>4, <1>5, <3>1 DEF Calling
    <3>2. CASE d # c
      <4>1. m # n
        BY <2>2, <3>2
      <4> QED BY <1>5, <2>1, <3>2, <4>1 DEF Exact, KnowsItsNode
    <3> QED BY <3>1, <3>2
  <2>7. \A m \in sec_nodes \ {n} : \A s : HasCounted(m, s)' = HasCounted(m, s)
    BY <1>1, <1>4, <1>5, <2>4 DEF HasCounted, Committed, Calling
  <2>8. \A s : HasCounted(n, s) <=> sec_carried[n] = s
    BY <1>1, <2>2 DEF HasCounted, Committed, Calling
  <2>9. \A s : HasCounted(n, s)' <=> u.had = s
    <3>1. \A d \in sec_callers : Calling(d, n)' => d = c
      BY <2>2, <2>4
    <3>2. Committed(c, n)'
      BY <1>2, <1>4, <1>5, <2>4 DEF Committed
    <3> QED BY <1>4, <1>5, <3>1, <3>2 DEF HasCounted, Committed
  <2>10. \A s : Sharers(s)' = Sharers(s)
    BY <2>3, <2>7, <2>8, <2>9 DEF Sharers
  <2> QED BY <1>1, <2>1, <2>5, <2>6, <2>10 DEF Exact
<1> QED BY <1>6, <1>7 DEF Counts

\* An operation that has committed is the only one on its node, and goes on by itself.
OnlyGoesOn(c, n, next) ==
  /\ OneCall' /\ KnowsItsNode'
  /\ \A m \in sec_nodes \ {n} : \A s : HasCounted(m, s)' = HasCounted(m, s)
  /\ \A s : HasCounted(n, s) <=> sec_call[c].at = "releases" /\ sec_call[c].had = s
  /\ \A s : HasCounted(n, s)' <=> next = Secrets!Idle /\ sec_carried[n] = s
  /\ sec_call[c].next = sec_carried[n]

LEMMA GoesOnAlone ==
  ASSUME SecretsAreApart, Counts, Orderly, NEW c \in sec_callers, NEW n \in sec_nodes,
         Committed(c, n), NEW v \in {Secrets!Idle} \cup SecretCall,
         sec_call' = [sec_call EXCEPT ![c] = v], UNCHANGED sec_carried,
         v # Secrets!Idle => v.at = "registers" /\ v.node = n /\ v.next = sec_call[c].next
  PROVE  OnlyGoesOn(c, n, v)
<1>1. /\ \A d \in sec_callers \ {c} : sec_call'[d] = sec_call[d]
      /\ sec_call'[c] = v
  BY DEF Counts, SecretsTyped
<1>2. Exact /\ Calling(c, n)
  BY DEF Counts, Committed
<1>3. \A d \in sec_callers : Calling(d, n) => d = c
  BY <1>2 DEF Exact, OneCall
<1>4. sec_call[c].next = sec_carried[n]
  BY <1>2 DEF Exact, KnowsItsNode, Committed
<1>5. \A d \in sec_callers : \A m : Calling(d, m)' => Calling(d, m)
  BY <1>1, <1>2 DEF Calling
<1>6. OneCall'
  BY <1>2, <1>5 DEF Exact, OneCall
<1>7. KnowsItsNode'
  <2> SUFFICES ASSUME NEW m \in sec_nodes, NEW d \in sec_callers, Calling(d, m)'
               PROVE  /\ sec_call'[d].at = "called" =>
                           sec_call'[d].had = IF sec_call'[d].kind = "create"
                                                THEN sec_gone ELSE sec_carried'[m]
                      /\ sec_call'[d].at # "called" => sec_call'[d].next = sec_carried'[m]
    BY DEF KnowsItsNode
  <2>1. CASE d = c
    <3>1. v # Secrets!Idle /\ m = n
      BY <1>1, <2>1 DEF Calling
    <3> QED BY <1>1, <1>4, <2>1, <3>1
  <2>2. CASE d # c
    BY <1>1, <1>2, <1>5, <2>2 DEF Exact, KnowsItsNode
  <2> QED BY <2>1, <2>2
<1>8. \A m \in sec_nodes \ {n}, d \in sec_callers :
        /\ Calling(d, m)' = Calling(d, m)
        /\ Calling(d, m) => sec_call'[d] = sec_call[d]
  BY <1>1, <1>2 DEF Calling
<1>9. \A m \in sec_nodes \ {n} : \A s : HasCounted(m, s)' = HasCounted(m, s)
  BY <1>8 DEF HasCounted, Committed
<1>10. \A s : HasCounted(n, s) <=> sec_call[c].at = "releases" /\ sec_call[c].had = s
  BY <1>2, <1>3 DEF HasCounted
<1>11. ASSUME NEW s
       PROVE  HasCounted(n, s)' <=> v = Secrets!Idle /\ sec_carried[n] = s
  <2>1. \A d \in sec_callers : Calling(d, n)' => d = c
    BY <1>3, <1>5
  <2>2. Calling(c, n)' <=> v # Secrets!Idle
    BY <1>1 DEF Calling
  <2> QED BY <1>1, <2>1, <2>2 DEF HasCounted, Committed
<1> QED BY <1>4, <1>6, <1>7, <1>9, <1>10, <1>11 DEF OnlyGoesOn

LEMMA ReleaseCounts ==
  ASSUME SecretsAreApart, Counts, NEW c \in sec_callers, Secrets!Release(c)
  PROVE  Counts'
<1>. PICK u : u = sec_call[c]
  OBVIOUS
<1>. PICK n : n = u.node
  OBVIOUS
<1>. PICK v : v = [u EXCEPT !.at = "registers"]
  OBVIOUS
<1>1. /\ u \in SecretCall /\ u.at = "releases" /\ n \in sec_nodes /\ u # Secrets!Idle
      /\ sec_call' = [sec_call EXCEPT ![c] = v] /\ UNCHANGED <<sec_carried, sec_saved, sec_crossed, sec_unsettled>>
      /\ Secrets!Unregistered(u.had)
  <2>1. /\ u \in {Secrets!Idle} \cup SecretCall /\ u.at = "releases"
        /\ sec_call' = [sec_call EXCEPT ![c] = v] /\ UNCHANGED <<sec_carried, sec_saved, sec_crossed, sec_unsettled>>
        /\ Secrets!Unregistered(u.had)
    BY DEF Counts, SecretsTyped, Secrets!Release, Secrets!Goes
  <2>2. u \in SecretCall /\ u # Secrets!Idle
    BY <2>1, CallStages
  <2> QED BY <2>1, <2>2 DEF SecretCall
<1>2. v \in SecretCall /\ v.at = "registers" /\ v.node = n /\ v.next = u.next
  BY <1>1 DEF SecretCall
<1>3. Committed(c, n) /\ v # Secrets!Idle
  BY <1>1, <1>2, CallStages DEF Committed, Calling
<1>4. SecretsTyped'
  <2>1. sec_count' \in [sec_credentials -> Nat]
    BY <1>1 DEF Counts, SecretsTyped, Secrets!Unregistered
  <2> QED BY <1>1, <1>2, <2>1 DEF Counts, SecretsTyped
<1>5. ASSUME Orderly' PROVE Exact'
  <2>0. Orderly /\ Exact /\ sec_count \in [sec_credentials -> Nat]
    BY <1>1, <1>5 DEF Counts, SecretsTyped, Orderly
  <2>1. /\ OneCall' /\ KnowsItsNode'
        /\ \A m \in sec_nodes \ {n} : \A s : HasCounted(m, s)' = HasCounted(m, s)
        /\ \A s : HasCounted(n, s) <=> u.had = s
        /\ \A s : ~HasCounted(n, s)'
    <3>1. OnlyGoesOn(c, n, v)
      BY <1>1, <1>2, <1>3, <2>0, GoesOnAlone
    <3> QED BY <1>1, <1>3, <3>1 DEF OnlyGoesOn
  <2>2. \A s : s # u.had => Sharers(s)' = Sharers(s)
    BY <2>1 DEF Sharers
  <2>3. n \in Sharers(u.had) /\ Sharers(u.had)' = Sharers(u.had) \ {n}
    BY <1>1, <2>1 DEF Sharers
  <2>4. Cardinality(Sharers(u.had)') = Cardinality(Sharers(u.had)) - 1
        /\ Cardinality(Sharers(u.had)) \in Nat /\ Cardinality(Sharers(u.had)') \in Nat
    <3>1. IsFiniteSet(Sharers(u.had)) /\ Cardinality(Sharers(u.had)) \in Nat
      BY SharersFinite
    <3>2. Cardinality(Sharers(u.had) \ {n}) = Cardinality(Sharers(u.had)) - 1
          /\ IsFiniteSet(Sharers(u.had) \ {n})
      BY <2>3, <3>1, FS_RemoveElement
    <3>3. Cardinality(Sharers(u.had) \ {n}) \in Nat
      BY <3>2, FS_CardinalityType
    <3> QED BY <2>3, <3>1, <3>2, <3>3
  <2>5. ASSUME NEW s \in sec_credentials PROVE sec_count'[s] = Cardinality(Sharers(s)')
    <3>1. sec_count[s] = Cardinality(Sharers(s))
      BY <2>0 DEF Exact
    <3>2. CASE s = u.had
      <4>1. sec_count[s] > 0
        BY <2>4, <3>1, <3>2
      <4>2. sec_count' = [sec_count EXCEPT ![s] = sec_count[s] - 1]
        BY <1>1, <3>2, <4>1 DEF Secrets!Unregistered
      <4> QED BY <2>0, <2>4, <3>1, <3>2, <4>2
    <3>3. CASE s # u.had
      <4>1. sec_count'[s] = sec_count[s]
        BY <1>1, <2>0, <3>3 DEF Secrets!Unregistered
      <4> QED BY <2>2, <3>1, <3>3, <4>1
    <3> QED BY <3>2, <3>3
  <2> QED BY <2>1, <2>5 DEF Exact
<1> QED BY <1>4, <1>5 DEF Counts

LEMMA RegisterCounts ==
  ASSUME SecretsAreApart, Counts, NEW c \in sec_callers, Secrets!Register(c)
  PROVE  Counts'
<1>. PICK u : u = sec_call[c]
  OBVIOUS
<1>. PICK n : n = u.node
  OBVIOUS
<1>1. /\ u \in SecretCall /\ u.at = "registers" /\ n \in sec_nodes /\ u # Secrets!Idle
      /\ sec_call' = [sec_call EXCEPT ![c] = Secrets!Idle]
      /\ UNCHANGED <<sec_carried, sec_saved, sec_crossed, sec_unsettled>>
      /\ Secrets!Registered(u.next)
  <2>1. /\ u \in {Secrets!Idle} \cup SecretCall /\ u.at = "registers"
        /\ sec_call' = [sec_call EXCEPT ![c] = Secrets!Idle]
        /\ UNCHANGED <<sec_carried, sec_saved, sec_crossed, sec_unsettled>>
        /\ Secrets!Registered(u.next)
    BY DEF Counts, SecretsTyped, Secrets!Register, Secrets!Goes
  <2>2. u \in SecretCall /\ u # Secrets!Idle
    BY <2>1, CallStages
  <2> QED BY <2>1, <2>2 DEF SecretCall
<1>2. Committed(c, n)
  BY <1>1 DEF Committed, Calling
<1>3. SecretsTyped'
  <2>1. sec_count' \in [sec_credentials -> Nat]
    BY <1>1 DEF Counts, SecretsTyped, Secrets!Registered
  <2> QED BY <1>1, <2>1 DEF Counts, SecretsTyped
<1>4. ASSUME Orderly' PROVE Exact'
  <2>0. Orderly /\ Exact /\ sec_count \in [sec_credentials -> Nat]
    BY <1>1, <1>4 DEF Counts, SecretsTyped, Orderly
  <2>1. /\ OneCall' /\ KnowsItsNode'
        /\ \A m \in sec_nodes \ {n} : \A s : HasCounted(m, s)' = HasCounted(m, s)
        /\ \A s : ~HasCounted(n, s)
        /\ \A s : HasCounted(n, s)' <=> sec_carried[n] = s
        /\ u.next = sec_carried[n]
    <3>1. OnlyGoesOn(c, n, Secrets!Idle)
      BY <1>1, <1>2, <2>0, GoesOnAlone
    <3>2. "registers" # "releases"
      OBVIOUS
    <3> QED BY <1>1, <3>1, <3>2 DEF OnlyGoesOn
  <2>2. \A s : s # u.next => Sharers(s)' = Sharers(s)
    BY <2>1 DEF Sharers
  <2>3. n \notin Sharers(u.next) /\ Sharers(u.next)' = Sharers(u.next) \cup {n}
    BY <1>1, <2>1 DEF Sharers
  <2>4. Cardinality(Sharers(u.next)') = Cardinality(Sharers(u.next)) + 1
    <3>1. IsFiniteSet(Sharers(u.next))
      BY SharersFinite
    <3>2. Cardinality(Sharers(u.next) \cup {n}) = Cardinality(Sharers(u.next)) + 1
      BY <2>3, <3>1, FS_AddElement
    <3> QED BY <2>3, <3>2
  <2>5. ASSUME NEW s \in sec_credentials PROVE sec_count'[s] = Cardinality(Sharers(s)')
    <3>1. sec_count[s] = Cardinality(Sharers(s))
      BY <2>0 DEF Exact
    <3>2. CASE s = u.next
      BY <1>1, <2>0, <2>4, <3>1, <3>2 DEF Secrets!Registered
    <3>3. CASE s # u.next
      <4>1. sec_count'[s] = sec_count[s]
        BY <1>1, <2>0, <3>3 DEF Secrets!Registered
      <4> QED BY <2>2, <3>1, <3>3, <4>1
    <3> QED BY <3>2, <3>3
  <2> QED BY <2>1, <2>5 DEF Exact
<1> QED BY <1>3, <1>4 DEF Counts

LEMMA RestartCounts ==
  ASSUME SecretsAreApart, Counts, Secrets!Restart
  PROVE  Counts'
<1> DEFINE Has(s) == {n \in sec_nodes : sec_saved[n] = s}
<1>1. /\ sec_count' = [s \in sec_credentials |-> Cardinality(Has(s))]
      /\ sec_call' = [c \in sec_callers |-> Secrets!Idle] /\ UNCHANGED sec_saved
      /\ sec_carried' = sec_saved
      /\ sec_crossed' = FALSE
  BY SameCardinality DEF Secrets!Restart
<1>2. \A s : Cardinality(Has(s)) \in Nat
  <2> SUFFICES ASSUME NEW s PROVE Cardinality(Has(s)) \in Nat
    OBVIOUS
  <2>1. IsFiniteSet(Has(s))
    BY FS_Subset DEF SecretsAreApart
  <2> HIDE DEF Has
  <2> QED BY <2>1, FS_CardinalityType
<1>3. \A c \in sec_callers : sec_call'[c] = Secrets!Idle /\ \A n : ~Calling(c, n)'
  BY <1>1 DEF Calling
<1>4. \A s : Sharers(s)' = Has(s)
  <2>1. \A n \in sec_nodes : \A s : HasCounted(n, s)' <=> sec_saved[n] = s
    BY <1>1, <1>3 DEF HasCounted, Committed
  <2> QED BY <2>1 DEF Sharers
<1> HIDE DEF Has
<1>5. SecretsTyped'
  BY <1>1, <1>2 DEF Counts, SecretsTyped
<1>6. Exact'
  BY <1>1, <1>3, <1>4 DEF Exact, OneCall, KnowsItsNode
<1> QED BY <1>5, <1>6 DEF Counts

LEMMA InitCounts ==
  ASSUME SecretsAreApart, Secrets!Init
  PROVE  Counts
<1>1. /\ sec_carried = [n \in sec_nodes |-> sec_gone]
      /\ sec_saved = sec_carried
      /\ sec_count = [s \in sec_credentials |-> 0]
      /\ sec_call = [c \in sec_callers |-> Secrets!Idle]
  BY DEF Secrets!Init
<1>2. \A c \in sec_callers : sec_call[c] = Secrets!Idle /\ \A n : ~Calling(c, n)
  BY <1>1 DEF Calling
<1>3. \A s \in sec_credentials : Sharers(s) = {}
  BY <1>1 DEF Sharers, HasCounted, Calling, SecretsAreApart
<1>4. \A s \in sec_credentials : sec_count[s] = Cardinality(Sharers(s))
  BY <1>1, <1>3, FS_EmptySet
<1>5. SecretsTyped
  BY <1>1 DEF SecretsTyped, Had
<1> QED BY <1>2, <1>4, <1>5 DEF Counts, Exact, OneCall, KnowsItsNode

LEMMA StepCounts ==
  ASSUME SecretsAreApart, Counts, [Secrets!Next]_(Secrets!vars)
  PROVE  Counts'
<1>1. CASE UNCHANGED Secrets!vars
  <2>1. UNCHANGED <<sec_carried, sec_saved, sec_count, sec_call, sec_crossed, sec_unsettled>>
    BY <1>1 DEF Secrets!vars
  <2>2. \A s : Sharers(s)' = Sharers(s)
    BY <2>1 DEF Sharers, HasCounted, Committed, Calling
  <2>3. SecretsTyped' = SecretsTyped /\ OneCall' = OneCall /\ KnowsItsNode' = KnowsItsNode
    BY <2>1 DEF SecretsTyped, OneCall, KnowsItsNode, Calling
  <2> QED BY <2>1, <2>2, <2>3 DEF Counts, Exact, Orderly
<1>2. ASSUME NEW c \in sec_callers, NEW n \in sec_nodes, NEW kind \in Secrets!Kinds,
             NEW next \in sec_credentials \cup {sec_open, sec_gone}, Secrets!Begin(c, n, kind, next)
      PROVE  Counts'
  BY <1>2, BeginCounts DEF Had
\* the other operations that save the table
<1>3. CASE Secrets!OtherSaves
  <2>1. /\ UNCHANGED <<sec_carried, sec_count, sec_call, sec_crossed, sec_unsettled>>
        /\ sec_saved' = sec_carried
    BY <1>3 DEF Secrets!OtherSaves, Secrets!OnlyServiceActs
  <2>2. \A s : Sharers(s)' = Sharers(s)
    BY <2>1 DEF Sharers, HasCounted, Committed, Calling
  <2>3. OneCall' = OneCall /\ KnowsItsNode' = KnowsItsNode
    BY <2>1 DEF OneCall, KnowsItsNode, Calling
  <2>4. SecretsTyped'
    BY <2>1 DEF Counts, SecretsTyped
  <2> QED BY <2>1, <2>2, <2>3, <2>4 DEF Counts, Exact, Orderly
<1> QED
  BY <1>1, <1>2, <1>3, CommitCounts, RefuseCounts, TwiceFailedCounts, ReleaseCounts,
     RegisterCounts, RestartCounts DEF Secrets!Next

(***************************************************************************)
(* Between operations each credential is counted once for each node that   *)
(* has it, as long as no two operations on one node overlapped and none    *)
(* had two failing calls, for every number of administrators, nodes and    *)
(* shared credentials.                                                     *)
(***************************************************************************)
THEOREM CredentialsAreCounted == Secrets!Spec => []CountsAreExact
<1>. SecretsAreApart
  BY SecretsAssumption
<1>1. Secrets!Init => Counts
  BY InitCounts
<1>2. Counts /\ [Secrets!Next]_(Secrets!vars) => Counts'
  BY StepCounts
<1>3. Counts => Secrets!CountsAreExact
  <2> SUFFICES ASSUME Counts, Secrets!Between, Orderly, NEW s \in sec_credentials
               PROVE  sec_count[s] = Cardinality({n \in sec_nodes : sec_carried[n] = s})
    BY SameCardinality DEF Secrets!CountsAreExact, Orderly
  <2>1. \A c \in sec_callers : \A n : ~Calling(c, n)
    BY DEF Secrets!Between, Calling
  <2>2. Sharers(s) = {n \in sec_nodes : sec_carried[n] = s}
    BY <2>1 DEF Sharers, HasCounted, Committed
  <2> QED BY <2>2 DEF Counts, Exact
<1> QED BY <1>1, <1>2, <1>3, PTL DEF Secrets!Spec, CountsAreExact

-----------------------------------------------------------------------------
(***************************************************************************)
(* The resolver.  A lookup on its way is at least as old as the time since *)
(* its servers were replaced, and what it stores counts from its start; so *)
(* the lifetime of an old answer and the time since the replacement never  *)
(* add up to more than the longest lifetime.                               *)
(***************************************************************************)
ServersAreSaved ==
  \/ lk_op = Lookup!NoOp /\ lk_servers = lk_file /\ lk_settings = lk_file
  \/ /\ lk_op.at = "saving" /\ lk_servers = lk_op.list
     /\ lk_op.before = lk_file /\ lk_settings = lk_file

OnItsWay(u) ==
  /\ \E K, R : u \in [at : {"missed", "asking"}, key : K, rest : R, age : Nat,
                      stale : 0..(lk_max + 1)]
  /\ u.stale # Lookup!Current => u.stale - 1 <= u.age

LookupsAreOlder ==
  /\ lk_lookups = [c \in lk_clients |-> lk_lookups[c]]
  /\ \A c \in lk_clients : Lookup!Asks(lk_lookups[c]) => OnItsWay(lk_lookups[c])

Lasting(e) ==
  /\ e \in [answer : Lookup!Answers, left : Int, stale : 0..(lk_max + 1)]
  /\ e.stale # Lookup!Current => e.left + (e.stale - 1) <= lk_max

EntriesEnd == \A k \in DOMAIN lk_cache : Lasting(lk_cache[k])

UpToDate == ServersAreSaved /\ LookupsAreOlder /\ EntriesEnd

LEMMA NewLookup ==
  ASSUME Lifetimes, NEW u
  PROVE  /\ \A answer : ~Lookup!Asks(Lookup!After(u, answer))
         /\ Lookup!Asks(Lookup!Looked(u)) => OnItsWay(Lookup!Looked(u))
         /\ ~Lookup!Asks(Lookup!Idle)
<1>1. \A answer : Lookup!After(u, answer).at \in {"next", "idle"}
  BY DEF Lookup!After, Lookup!Idle
<1>2. \A answer : ~Lookup!Asks(Lookup!After(u, answer))
  BY <1>1 DEF Lookup!Asks
<1>3. Lookup!Known(u.key) => ~Lookup!Asks(Lookup!Looked(u))
  BY <1>2 DEF Lookup!Looked
<1>4. ~Lookup!Known(u.key) => OnItsWay(Lookup!Looked(u))
  <2> PICK v : v = [at |-> "missed", key |-> u.key, rest |-> lk_servers, age |-> 0,
                    stale |-> Lookup!Current]
    OBVIOUS
  <2>1. v \in [at : {"missed", "asking"}, key : {u.key}, rest : {lk_servers}, age : Nat,
               stale : 0..(lk_max + 1)]
    BY DEF Lookup!Current, Lifetimes
  <2>2. v.stale = Lookup!Current
    OBVIOUS
  <2>3. OnItsWay(v)
    BY <2>1, <2>2 DEF OnItsWay
  <2> QED BY <2>3 DEF Lookup!Looked
<1> QED BY <1>2, <1>3, <1>4 DEF Lookup!Asks, Lookup!Idle

\* One lookup changes, to one that does not ask or is on its way.
LEMMA OneLookup ==
  ASSUME UpToDate, NEW c \in lk_clients, NEW v, Lookup!Asks(v) => OnItsWay(v),
         lk_lookups' = [lk_lookups EXCEPT ![c] = v]
  PROVE  LookupsAreOlder'
<1>1. /\ lk_lookups = [d \in lk_clients |-> lk_lookups[d]]
      /\ \A d \in lk_clients : Lookup!Asks(lk_lookups[d]) => OnItsWay(lk_lookups[d])
  BY DEF UpToDate, LookupsAreOlder
<1>2. lk_lookups' = [d \in lk_clients |-> IF d = c THEN v ELSE lk_lookups[d]]
  BY <1>1
<1>3. lk_lookups' = [d \in lk_clients |-> lk_lookups'[d]]
  BY <1>2
<1>4. ASSUME NEW d \in lk_clients, Lookup!Asks(lk_lookups'[d])
      PROVE  OnItsWay(lk_lookups'[d])
  BY <1>1, <1>2, <1>4
<1>5. \A d \in lk_clients : Lookup!Asks(lk_lookups[d])' => OnItsWay(lk_lookups[d])'
  BY <1>4 DEF Lookup!Asks, OnItsWay
<1> QED BY <1>3, <1>5 DEF LookupsAreOlder

\* The callers of a call that is done no longer ask.
LEMMA ToldLookups ==
  ASSUME Lifetimes, UpToDate, NEW c, NEW quit, NEW answer,
         lk_lookups' = Lookup!Told(c, quit, answer)
  PROVE  LookupsAreOlder'
<1>1. \A d \in lk_clients : \/ lk_lookups'[d] = lk_lookups[d]
                            \/ ~Lookup!Asks(lk_lookups'[d])
  BY NewLookup DEF Lookup!Told
<1>2. lk_lookups' = [d \in lk_clients |-> lk_lookups'[d]]
  BY DEF Lookup!Told
<1>3. \A d \in lk_clients : Lookup!Asks(lk_lookups[d])' => OnItsWay(lk_lookups[d])'
  BY <1>1 DEF UpToDate, LookupsAreOlder, Lookup!Asks, OnItsWay
<1> QED BY <1>2, <1>3 DEF LookupsAreOlder

LEMMA AnswerUpToDate ==
  ASSUME Lifetimes, UpToDate, NEW c \in lk_clients, NEW answer \in Lookup!Answers,
         NEW ttl \in lk_ttls, Lookup!Answer(c, answer, ttl)
  PROVE  UpToDate'
<1> PICK u : u = lk_lookups[c]
  OBVIOUS
<1> PICK e : e = Lookup!Entry(u, answer, ttl)
  OBVIOUS
<1> PICK stored : stored = Lookup!Put(lk_cache, u.key, e)
  OBVIOUS
<1>1. u.at = "asking" /\ OnItsWay(u)
  BY DEF Lookup!Answer, UpToDate, LookupsAreOlder, Lookup!Asks
<1>2. Lookup!Lifetime(answer, ttl) \in Nat /\ Lookup!Lifetime(answer, ttl) <= lk_max
  BY DEF Lifetimes, Lookup!Lifetime
<1>3. Lasting(e)
  BY <1>1, <1>2 DEF Lookup!Entry, Lasting, OnItsWay, Lifetimes
<1>4. \A k \in DOMAIN stored : Lasting(stored[k])
  BY <1>3 DEF Lookup!Put, UpToDate, EntriesEnd
<1>5. PICK K \in Lookup!Evictions(stored, u.key, u.age) : lk_cache' = [k \in K |-> stored[k]]
  BY DEF Lookup!Answer
<1>6. K \subseteq DOMAIN stored
  BY <1>5 DEF Lookup!Evictions
<1>7. \A k \in DOMAIN lk_cache' : Lasting(lk_cache'[k])
  BY <1>4, <1>5, <1>6
<1>8. EntriesEnd'
  BY <1>7 DEF EntriesEnd, Lasting
<1>9. LookupsAreOlder'
  <2>1. PICK quit : lk_lookups' = Lookup!Told(c, quit, answer)
    BY DEF Lookup!Answer
  <2> QED BY <2>1, ToldLookups
<1>10. ServersAreSaved'
  BY DEF Lookup!Answer, UpToDate, ServersAreSaved
<1> QED BY <1>8, <1>9, <1>10 DEF UpToDate

LEMMA TickUpToDate ==
  ASSUME Lifetimes, UpToDate, Lookup!Tick
  PROVE  UpToDate'
<1>1. \A n \in 0..(lk_max + 1) :
        /\ Lookup!Older(n) \in 0..(lk_max + 1)
        /\ n = Lookup!Current => Lookup!Older(n) = Lookup!Current
        /\ n # Lookup!Current => /\ Lookup!Older(n) # Lookup!Current
                                 /\ Lookup!Older(n) <= n + 1 /\ Lookup!Older(n) <= lk_max + 1
  BY DEF Lookup!Older, Lookup!Current, Lifetimes
<1>2. ASSUME NEW e, Lasting(e)
      PROVE  Lasting([e EXCEPT !.left = IF @ > -lk_age_bound THEN @ - 1 ELSE @,
                               !.stale = Lookup!Older(@)])
  <2> PICK f : f = [e EXCEPT !.left = IF @ > -lk_age_bound THEN @ - 1 ELSE @,
                             !.stale = Lookup!Older(@)]
    OBVIOUS
  <2>1. /\ e.left \in Int /\ e.stale \in 0..(lk_max + 1) /\ lk_max \in Nat /\ lk_age_bound \in Nat
        /\ e.stale # Lookup!Current => e.left + (e.stale - 1) <= lk_max
    BY <1>2 DEF Lasting, Lifetimes
  <2>2. /\ f \in [answer : Lookup!Answers, left : Int, stale : 0..(lk_max + 1)]
        /\ f.left = (IF e.left > -lk_age_bound THEN e.left - 1 ELSE e.left)
        /\ f.stale = Lookup!Older(e.stale)
    <3> PICK l : l = (IF e.left > -lk_age_bound THEN e.left - 1 ELSE e.left)
      OBVIOUS
    <3> PICK s : s = Lookup!Older(e.stale)
      OBVIOUS
    <3>1. l \in Int /\ s \in 0..(lk_max + 1)
      BY <1>1, <2>1
    <3>2. f = [e EXCEPT !.left = l, !.stale = s]
      OBVIOUS
    <3>3. e \in [answer : Lookup!Answers, left : Int, stale : 0..(lk_max + 1)]
      BY <1>2 DEF Lasting
    <3>4. /\ f \in [answer : Lookup!Answers, left : Int, stale : 0..(lk_max + 1)]
          /\ f.left = l /\ f.stale = s
      BY <3>1, <3>2, <3>3
    <3> QED BY <3>4
  <2>3. f.stale # Lookup!Current => f.left + (f.stale - 1) <= lk_max
    BY <1>1, <2>1, <2>2
  <2> QED BY <2>2, <2>3 DEF Lasting
<1>3. ASSUME NEW u, OnItsWay(u)
      PROVE  OnItsWay([u EXCEPT !.age = @ + 1, !.stale = Lookup!Older(@)])
  <2> PICK v : v = [u EXCEPT !.age = @ + 1, !.stale = Lookup!Older(@)]
    OBVIOUS
  <2>1. PICK K, R : u \in [at : {"missed", "asking"}, key : K, rest : R, age : Nat,
                           stale : 0..(lk_max + 1)]
    BY <1>3 DEF OnItsWay
  <2>2. /\ u.age \in Nat /\ u.stale \in 0..(lk_max + 1) /\ lk_max \in Nat
        /\ u.stale # Lookup!Current => u.stale - 1 <= u.age
    BY <1>3, <2>1 DEF OnItsWay, Lifetimes
  <2>3. /\ v \in [at : {"missed", "asking"}, key : K, rest : R, age : Nat,
                  stale : 0..(lk_max + 1)]
        /\ v.age = u.age + 1 /\ v.stale = Lookup!Older(u.stale)
    <3> PICK a : a = u.age + 1
      OBVIOUS
    <3> PICK s : s = Lookup!Older(u.stale)
      OBVIOUS
    <3>1. a \in Nat /\ s \in 0..(lk_max + 1)
      BY <1>1, <2>2
    <3>2. v = [u EXCEPT !.age = a, !.stale = s]
      OBVIOUS
    <3>3. /\ v \in [at : {"missed", "asking"}, key : K, rest : R, age : Nat,
                    stale : 0..(lk_max + 1)]
          /\ v.age = a /\ v.stale = s
      BY <2>1, <3>1, <3>2
    <3> QED BY <3>3
  <2>4. v.stale # Lookup!Current => v.stale - 1 <= v.age
    BY <1>1, <2>2, <2>3
  <2> QED BY <2>3, <2>4 DEF OnItsWay
<1>4. \A k \in DOMAIN lk_cache' : Lasting(lk_cache'[k])
  BY <1>2 DEF Lookup!Tick, UpToDate, EntriesEnd
<1>5. EntriesEnd'
  BY <1>4 DEF EntriesEnd, Lasting
<1>6. lk_lookups' = [c \in lk_clients |-> lk_lookups'[c]]
  BY DEF Lookup!Tick
<1>7. \A c \in lk_clients : Lookup!Asks(lk_lookups'[c]) => OnItsWay(lk_lookups'[c])
  BY <1>3 DEF Lookup!Tick, UpToDate, LookupsAreOlder
<1>8. LookupsAreOlder'
  BY <1>6, <1>7 DEF LookupsAreOlder, Lookup!Asks, OnItsWay
<1>9. ServersAreSaved'
  BY DEF Lookup!Tick, UpToDate, ServersAreSaved
<1> QED BY <1>5, <1>8, <1>9 DEF UpToDate

LEMMA ReplaceUpToDate ==
  ASSUME Lifetimes, UpToDate, NEW list, Lookup!Replace(list)
  PROVE  LookupsAreOlder' /\ EntriesEnd'
<1>1. EntriesEnd'
  BY DEF Lookup!Replace, EntriesEnd
<1>2. ASSUME NEW u, OnItsWay(u)
      PROVE  OnItsWay([u EXCEPT !.stale = Lookup!Replaced(@)])
  BY <1>2 DEF OnItsWay, Lookup!Replaced, Lookup!Current, Lifetimes
<1>3. lk_lookups' = [c \in lk_clients |-> lk_lookups'[c]]
  BY DEF Lookup!Replace
<1>4. \A c \in lk_clients : Lookup!Asks(lk_lookups'[c]) => OnItsWay(lk_lookups'[c])
  BY <1>2 DEF Lookup!Replace, UpToDate, LookupsAreOlder
<1> QED BY <1>1, <1>3, <1>4 DEF LookupsAreOlder, Lookup!Asks, OnItsWay

LEMMA StepUpToDate ==
  ASSUME Lifetimes, UpToDate, [Lookup!Next]_(Lookup!vars)
  PROVE  UpToDate'
<1> DEFINE OnlyLookups == UNCHANGED <<lk_servers, lk_cache, lk_op, lk_settings, lk_file, lk_updates>>
<1>1. ASSUME OnlyLookups, LookupsAreOlder' PROVE UpToDate'
  BY <1>1 DEF UpToDate, ServersAreSaved, EntriesEnd
<1>2. ASSUME NEW c \in lk_clients, NEW name \in lk_names, Lookup!Resolve(c, name)
      PROVE  UpToDate'
  BY <1>1, <1>2, NewLookup, OneLookup DEF Lookup!Resolve
<1>3. ASSUME NEW c \in lk_clients, Lookup!ResolveA(c) PROVE UpToDate'
  BY <1>1, <1>3, NewLookup, OneLookup DEF Lookup!ResolveA
<1>4. ASSUME NEW c \in lk_clients, Lookup!Begin(c) PROVE UpToDate'
  <2> PICK u : u = lk_lookups[c]
    OBVIOUS
  <2>1. OnItsWay(u)
    BY <1>4 DEF Lookup!Begin, UpToDate, LookupsAreOlder, Lookup!Asks
  <2>2. OnItsWay([u EXCEPT !.at = "asking"])
    BY <2>1 DEF OnItsWay
  <2>3. \A leader : ~Lookup!Asks(Lookup!Waiting(u, leader))
    BY DEF Lookup!Waiting, Lookup!Asks
  <2>4. PICK v : /\ lk_lookups' = [lk_lookups EXCEPT ![c] = v]
                 /\ v = [u EXCEPT !.at = "asking"] \/ \E leader : v = Lookup!Waiting(u, leader)
    BY <1>4 DEF Lookup!Begin
  <2> QED BY <1>1, <1>4, <2>2, <2>3, <2>4, OneLookup DEF Lookup!Begin
<1>5. ASSUME NEW c \in lk_clients, Lookup!AskFails(c) PROVE UpToDate'
  <2> PICK u : u = lk_lookups[c]
    OBVIOUS
  <2>1. OnItsWay(u)
    BY <1>5 DEF Lookup!AskFails, UpToDate, LookupsAreOlder, Lookup!Asks
  <2>2. \A rest : OnItsWay([u EXCEPT !.rest = rest])
    BY <2>1 DEF OnItsWay
  <2>3. lk_lookups' = [lk_lookups EXCEPT ![c] = [u EXCEPT !.rest = Tail(@)]]
    BY <1>5 DEF Lookup!AskFails
  <2> QED BY <1>1, <1>5, <2>2, <2>3, OneLookup DEF Lookup!AskFails
<1>6. ASSUME NEW c \in lk_clients, Lookup!NoAnswer(c) PROVE UpToDate'
  BY <1>1, <1>6, ToldLookups DEF Lookup!NoAnswer
<1>7. ASSUME NEW c \in lk_clients, Lookup!GiveUp(c) PROVE UpToDate'
  BY <1>1, <1>7, NewLookup, OneLookup DEF Lookup!GiveUp
<1>8. ASSUME NEW list \in lk_lists, Lookup!UpdateResolvers(list) PROVE UpToDate'
  <2>1. ServersAreSaved'
    BY <1>8 DEF Lookup!UpdateResolvers, Lookup!Replace, Lookup!NoOp, UpToDate, ServersAreSaved
  <2> QED BY <1>8, <2>1, ReplaceUpToDate DEF Lookup!UpdateResolvers, UpToDate
<1>9. CASE Lookup!SaveResolvers
  <2>1. ServersAreSaved'
    BY <1>9 DEF Lookup!SaveResolvers, Lookup!NoOp, UpToDate, ServersAreSaved
  <2> QED BY <1>9, <2>1 DEF Lookup!SaveResolvers, UpToDate, LookupsAreOlder, EntriesEnd
<1>10. CASE Lookup!SaveFails
  <2>1. ServersAreSaved'
    BY <1>10 DEF Lookup!SaveFails, Lookup!Replace, Lookup!NoOp, UpToDate, ServersAreSaved
  <2>2. LookupsAreOlder' /\ EntriesEnd'
    BY <1>10, ReplaceUpToDate DEF Lookup!SaveFails
  <2> QED BY <2>1, <2>2 DEF UpToDate
<1>11. CASE Lookup!Restart
  <2>1. ServersAreSaved' /\ EntriesEnd'
    BY <1>11 DEF Lookup!Restart, ServersAreSaved, EntriesEnd
  <2>2. LookupsAreOlder'
    BY <1>11 DEF Lookup!Restart, LookupsAreOlder, Lookup!Asks, Lookup!Idle
  <2> QED BY <2>1, <2>2 DEF UpToDate
<1>12. CASE UNCHANGED Lookup!vars
  BY <1>12 DEF Lookup!vars, UpToDate, ServersAreSaved, LookupsAreOlder, EntriesEnd
<1> QED
  BY <1>2, <1>3, <1>4, <1>5, <1>6, <1>7, <1>8, <1>9, <1>10, <1>11, <1>12, AnswerUpToDate,
     TickUpToDate DEF Lookup!Next, Lookup!Step

(***************************************************************************)
(* Between two updates the resolver asks the servers of the settings and   *)
(* the file, and an answer of replaced servers is used for the longest     *)
(* lifetime after the replacement at most, for any number of clients,      *)
(* names, servers and cache entries.                                       *)
(***************************************************************************)
THEOREM AnswersStayCurrent == Lookup!Spec => []AnswersAreCurrent
<1>. Lifetimes
  BY LookupAssumption
<1>1. ASSUME Lookup!Init PROVE UpToDate
  <2>1. LookupsAreOlder
    BY <1>1 DEF Lookup!Init, LookupsAreOlder, Lookup!Asks, Lookup!Idle
  <2>2. ServersAreSaved /\ EntriesEnd
    BY <1>1 DEF Lookup!Init, ServersAreSaved, EntriesEnd
  <2> QED BY <2>1, <2>2 DEF UpToDate
<1>2. UpToDate /\ [Lookup!Next]_(Lookup!vars) => UpToDate'
  BY StepUpToDate
<1>3. UpToDate => Lookup!AnswersAreCurrent
  BY DEF UpToDate, ServersAreSaved, EntriesEnd, Lasting, Lookup!NoOp, Lookup!AnswersAreCurrent
<1> QED BY <1>1, <1>2, <1>3, PTL DEF Lookup!Spec, AnswersAreCurrent

-----------------------------------------------------------------------------
(***************************************************************************)
(* The watchdog.  What it counts for a listener never exceeds the failures *)
(* since the last success or decision, so a decision has them behind it.   *)
(* During a probe the guard is what the round read, which keeps a second   *)
(* restart out of the episode: the first one left the guard.               *)
(***************************************************************************)
WatchdogRound ==
  [at : {"probing", "deciding", "restarting"}, targets : SUBSET wd_targets,
   target : wd_targets, guarded : BOOLEAN]

WatchdogTyped ==
  /\ wd_running \subseteq wd_targets
  /\ wd_round \in {Guard!NoRound} \cup WatchdogRound
  /\ wd_failures \in [wd_targets -> Nat] /\ wd_since \in [wd_targets -> Nat]
  /\ wd_guard \in BOOLEAN /\ wd_left \in BOOLEAN /\ wd_restarts \in {0, 1}

CountsWhatFailed ==
  /\ \A t \in wd_targets : wd_failures[t] <= wd_since[t]
  /\ wd_round.at \in {"deciding", "restarting"} =>
       Guard!AllFailed(wd_since) /\ \A t \in wd_targets : wd_failures[t] = 0

GuardsEpisode ==
  /\ wd_restarts = 1 => wd_guard
  /\ wd_guard /\ wd_round.at # "restarting" /\ ~wd_left => wd_restarts = 1
  /\ wd_round.at = "probing" => wd_round.guarded = wd_guard
  /\ wd_round.at = "deciding" => ~wd_guard
  /\ wd_round.at = "restarting" => wd_guard /\ wd_restarts = 0

OneEach == WatchdogTyped /\ CountsWhatFailed /\ GuardsEpisode

LEMMA RoundStages ==
  ASSUME wd_round \in {Guard!NoRound} \cup WatchdogRound
  PROVE  /\ Guard!NoRound.at = "none"
         /\ wd_round = Guard!NoRound <=> wd_round.at = "none"
         /\ wd_round # Guard!NoRound => wd_round \in WatchdogRound
BY DEF Guard!NoRound, WatchdogRound

LEMMA KeptCounts ==
  ASSUME NEW count \in [wd_targets -> Nat]
  PROVE  /\ Guard!Kept(count) \in [wd_targets -> Nat]
         /\ \A t \in wd_targets : Guard!Kept(count)[t] = IF t \in wd_running THEN count[t] ELSE 0
BY DEF Guard!Kept

LEMMA UpToCounts ==
  ASSUME wd_failures_limit \in Nat, NEW m \in Nat, NEW n \in Nat, m <= n
  PROVE  Guard!UpTo(m) \in Nat /\ Guard!UpTo(n) \in Nat /\ Guard!UpTo(m) <= Guard!UpTo(n)
BY DEF Guard!UpTo

LEMMA FailsOneEach ==
  ASSUME wd_failures_limit \in Nat, OneEach, Guard!Fails
  PROVE  OneEach'
<1> PICK t : t = wd_round.target
  OBVIOUS
<1> PICK count : count = [wd_failures EXCEPT ![t] = Guard!UpTo(@)]
  OBVIOUS
<1>1. /\ wd_round \in WatchdogRound /\ wd_round.at = "probing" /\ t \in wd_targets
      /\ wd_since' = [wd_since EXCEPT ![t] = Guard!UpTo(@)]
      /\ UNCHANGED <<wd_running, wd_guard, wd_restarts, wd_left>>
  BY RoundStages DEF OneEach, WatchdogTyped, Guard!Fails, WatchdogRound
<1>2. \/ wd_failures' = count /\ wd_round' = Guard!NoRound
      \/ /\ ~wd_round.guarded /\ Guard!AllFailed(count)
         /\ wd_failures' = Guard!Zero /\ wd_round' = [wd_round EXCEPT !.at = "deciding"]
  BY DEF Guard!Fails
<1>3. /\ wd_failures[t] \in Nat /\ wd_since[t] \in Nat /\ wd_failures[t] <= wd_since[t]
      /\ Guard!UpTo(wd_failures[t]) \in Nat /\ Guard!UpTo(wd_since[t]) \in Nat
      /\ Guard!UpTo(wd_failures[t]) <= Guard!UpTo(wd_since[t])
  BY <1>1, UpToCounts DEF OneEach, WatchdogTyped, CountsWhatFailed
<1>4. /\ count \in [wd_targets -> Nat] /\ wd_since' \in [wd_targets -> Nat]
      /\ \A u \in wd_targets : count[u] <= wd_since'[u]
  BY <1>1, <1>3 DEF OneEach, WatchdogTyped, CountsWhatFailed
<1>5. CASE wd_failures' = count /\ wd_round' = Guard!NoRound
  <2>1. wd_round'.at = "none"
    BY <1>5 DEF Guard!NoRound
  <2>2. WatchdogTyped' /\ CountsWhatFailed'
    BY <1>1, <1>4, <1>5, <2>1 DEF OneEach, WatchdogTyped, CountsWhatFailed
  <2>3. GuardsEpisode'
    BY <1>1, <2>1 DEF OneEach, GuardsEpisode
  <2> QED BY <2>2, <2>3 DEF OneEach
<1>6. CASE /\ ~wd_round.guarded /\ Guard!AllFailed(count)
           /\ wd_failures' = Guard!Zero /\ wd_round' = [wd_round EXCEPT !.at = "deciding"]
  <2>1. /\ wd_round' \in WatchdogRound /\ wd_round'.at = "deciding"
        /\ wd_round'.targets = wd_round.targets /\ wd_round.targets \subseteq wd_targets
    BY <1>1, <1>6 DEF WatchdogRound
  <2>2. wd_failures' \in [wd_targets -> Nat] /\ \A u \in wd_targets : wd_failures'[u] = 0
    BY <1>6 DEF Guard!Zero
  <2>3. WatchdogTyped'
    BY <1>1, <1>4, <2>1, <2>2 DEF OneEach, WatchdogTyped
  <2>4. Guard!AllFailed(wd_since)'
    BY <1>4, <1>6, <2>1 DEF Guard!AllFailed
  <2>5. CountsWhatFailed'
    BY <1>4, <2>2, <2>4 DEF CountsWhatFailed
  <2>6. GuardsEpisode'
    BY <1>1, <1>6, <2>1 DEF OneEach, WatchdogTyped, GuardsEpisode
  <2> QED BY <2>3, <2>5, <2>6 DEF OneEach
<1> QED BY <1>2, <1>5, <1>6

\* Every other step: the counts are kept, dropped for listeners that are gone, or set to zero
\* with the round over; and a round that is deciding goes on with its listeners.
CountsGoOn ==
  /\ \/ UNCHANGED <<wd_failures, wd_since>>
     \/ wd_failures' = Guard!Kept(wd_failures) /\ wd_since' = Guard!Kept(wd_since)
     \/ wd_failures' = Guard!Zero /\ wd_since' = Guard!Zero
     \/ /\ UNCHANGED wd_failures /\ wd_since' = Guard!Zero
        /\ wd_round.at \in {"deciding", "restarting"}
  /\ wd_round'.at \in {"deciding", "restarting"} =>
       /\ wd_round.at \in {"deciding", "restarting"} /\ wd_round'.targets = wd_round.targets
       /\ UNCHANGED <<wd_failures, wd_since>>

LEMMA CountsOnward ==
  ASSUME OneEach, CountsGoOn
  PROVE  /\ CountsWhatFailed'
         /\ wd_failures' \in [wd_targets -> Nat] /\ wd_since' \in [wd_targets -> Nat]
<1>1. /\ wd_failures \in [wd_targets -> Nat] /\ wd_since \in [wd_targets -> Nat]
      /\ \A t \in wd_targets : wd_failures[t] <= wd_since[t]
      /\ wd_round.at \in {"deciding", "restarting"} => \A t \in wd_targets : wd_failures[t] = 0
  BY DEF OneEach, WatchdogTyped, CountsWhatFailed
<1>2. Guard!Zero \in [wd_targets -> Nat] /\ \A t \in wd_targets : Guard!Zero[t] = 0
  BY DEF Guard!Zero
<1>3. /\ wd_failures' \in [wd_targets -> Nat] /\ wd_since' \in [wd_targets -> Nat]
      /\ \A t \in wd_targets : wd_failures'[t] <= wd_since'[t]
  <2>1. CASE UNCHANGED <<wd_failures, wd_since>>
    BY <1>1, <2>1
  <2>2. CASE wd_failures' = Guard!Kept(wd_failures) /\ wd_since' = Guard!Kept(wd_since)
    BY <1>1, <2>2, KeptCounts
  <2>3. CASE wd_failures' = Guard!Zero /\ wd_since' = Guard!Zero
    BY <1>2, <2>3
  <2>4. CASE /\ UNCHANGED wd_failures /\ wd_since' = Guard!Zero
             /\ wd_round.at \in {"deciding", "restarting"}
    BY <1>1, <1>2, <2>4
  <2> QED BY <2>1, <2>2, <2>3, <2>4 DEF CountsGoOn
<1>4. ASSUME wd_round'.at \in {"deciding", "restarting"}
      PROVE  Guard!AllFailed(wd_since)' /\ \A t \in wd_targets : wd_failures'[t] = 0
  BY <1>4 DEF CountsGoOn, OneEach, CountsWhatFailed, Guard!AllFailed
<1> QED BY <1>3, <1>4 DEF CountsWhatFailed

LEMMA StepOneEach ==
  ASSUME wd_failures_limit \in Nat, OneEach, [Guard!Next]_(Guard!vars)
  PROVE  OneEach'
<1> DEFINE Onward == /\ CountsGoOn /\ GuardsEpisode'
                     /\ wd_running' \subseteq wd_targets
                     /\ wd_round' \in {Guard!NoRound} \cup WatchdogRound
                     /\ wd_guard' \in BOOLEAN /\ wd_left' \in BOOLEAN /\ wd_restarts' \in {0, 1}
<1>1. Onward => OneEach'
  BY CountsOnward DEF OneEach, WatchdogTyped
<1>2. /\ Guard!NoRound.at = "none"
      /\ wd_round = Guard!NoRound <=> wd_round.at = "none"
      /\ wd_round # Guard!NoRound => wd_round \in WatchdogRound
  BY RoundStages DEF OneEach, WatchdogTyped
<1> USE DEF OneEach, WatchdogTyped, GuardsEpisode, CountsGoOn
<1>3. CASE Guard!Begin
  <2>1. Guard!LeastFailed(wd_failures') \subseteq wd_running
    BY DEF Guard!LeastFailed
  <2>2. /\ wd_round' \in WatchdogRound /\ wd_round'.at = "probing"
        /\ wd_round'.guarded = wd_guard
    BY <1>3, <2>1 DEF Guard!Begin, WatchdogRound
  <2> QED BY <1>1, <1>2, <1>3, <2>2 DEF Guard!Begin
<1>4. CASE Guard!BeginUnread
  BY <1>1, <1>2, <1>4 DEF Guard!BeginUnread
<1>5. CASE Guard!BeginWithoutTargets
  <2>1. CountsGoOn
    BY <1>2, <1>5 DEF Guard!BeginWithoutTargets
  <2>2. GuardsEpisode'
    BY <1>2, <1>5 DEF Guard!BeginWithoutTargets
  <2> QED BY <1>1, <1>5, <2>1, <2>2 DEF Guard!BeginWithoutTargets
<1>6. CASE Guard!Succeeds
  <2>1. CountsGoOn
    BY <1>2, <1>6 DEF Guard!Succeeds
  <2>2. GuardsEpisode'
    BY <1>2, <1>6 DEF Guard!Succeeds
  <2> QED BY <1>1, <1>6, <2>1, <2>2 DEF Guard!Succeeds
<1>7. CASE Guard!SaveGuard
  <2>1. /\ wd_round' \in WatchdogRound /\ wd_round'.at = "restarting"
        /\ wd_round'.targets = wd_round.targets
    BY <1>2, <1>7 DEF Guard!SaveGuard, WatchdogRound
  <2> QED BY <1>1, <1>2, <1>7, <2>1 DEF Guard!SaveGuard
<1>8. CASE Guard!SaveGuardFails
  BY <1>1, <1>2, <1>8 DEF Guard!SaveGuardFails
<1>9. CASE Guard!Restart
  <2>1. CountsGoOn
    BY <1>2, <1>9 DEF Guard!Restart
  <2>2. wd_restarts = 0 /\ wd_restarts' = wd_restarts + 1
    BY <1>9 DEF Guard!Restart
  <2>3. wd_restarts' = 1 /\ wd_round'.at = "none" /\ wd_guard' /\ wd_guard' \in BOOLEAN
    BY <1>2, <1>9, <2>2 DEF Guard!Restart
  <2>4. GuardsEpisode' /\ wd_restarts' \in {0, 1}
    BY <2>3
  <2> QED BY <1>1, <1>9, <2>1, <2>4 DEF Guard!Restart
<1>10. CASE Guard!RestartFails
  <2>1. CountsGoOn
    BY <1>2, <1>10 DEF Guard!RestartFails
  <2>2. wd_restarts' = 0 /\ wd_round'.at = "none"
    BY <1>2, <1>10 DEF Guard!RestartFails
  <2>3. ~wd_guard' \/ wd_left'
    BY <1>10 DEF Guard!RestartFails
  <2>4. GuardsEpisode'
    BY <2>2, <2>3
  <2> QED BY <1>1, <1>10, <2>1, <2>4 DEF Guard!RestartFails
<1>11. CASE Guard!NewProcess
  BY <1>1, <1>2, <1>11 DEF Guard!NewProcess
<1>12. CASE UNCHANGED <<wd_round, wd_failures, wd_guard, wd_since, wd_restarts, wd_left>>
            /\ wd_running' \subseteq wd_targets
  BY <1>1, <1>2, <1>12
<1>13. CASE Guard!Tick \/ Guard!Turn \/ UNCHANGED Guard!vars
  BY <1>12, <1>13 DEF Guard!Tick, Guard!Turn, Guard!vars
<1>14. ASSUME NEW t \in wd_targets, Guard!StartNode(t) \/ Guard!StopNode(t)
       PROVE  OneEach'
  BY <1>12, <1>14 DEF Guard!StartNode, Guard!StopNode
<1> HIDE DEF OneEach
<1> QED
  BY <1>3, <1>4, <1>5, <1>6, <1>7, <1>8, <1>9, <1>10, <1>11, <1>13, <1>14, FailsOneEach
  DEF Guard!Next, Guard!Replace, Guard!Crash

(***************************************************************************)
(* A failure episode gets one restart, decided when every listener of the  *)
(* round had failed often enough, and an episode without a restart is not  *)
(* kept from it, for any number of listeners, any limit and cooldown, and  *)
(* however many faults and new processes there are.                        *)
(***************************************************************************)
THEOREM OneRestartEach == Guard!Spec => []OneRestart
<1>. wd_failures_limit \in Nat
  BY GuardAssumption
<1>1. ASSUME Guard!Init PROVE OneEach
  <2>1. wd_round.at = "none"
    BY <1>1 DEF Guard!Init, Guard!NoRound
  <2>2. WatchdogTyped
    BY <1>1 DEF Guard!Init, Guard!Zero, WatchdogTyped
  <2>3. CountsWhatFailed
    BY <1>1, <2>1 DEF Guard!Init, Guard!Zero, CountsWhatFailed
  <2>4. GuardsEpisode
    BY <1>1, <2>1 DEF Guard!Init, GuardsEpisode
  <2> QED BY <2>2, <2>3, <2>4 DEF OneEach
<1>2. OneEach /\ [Guard!Next]_(Guard!vars) => OneEach'
  BY StepOneEach
<1>3. OneEach => Guard!OneRestart
  BY DEF OneEach, WatchdogTyped, CountsWhatFailed, GuardsEpisode, Guard!OneRestart
<1> QED BY <1>1, <1>2, <1>3, PTL DEF Guard!Spec, OneRestart

-----------------------------------------------------------------------------
(***************************************************************************)
(* The run of the service.  What is up in which phase: a start brings it   *)
(* up in one order, the cleanup takes it down in the other, and what it    *)
(* could not take down is remembered.  Components that could start a node  *)
(* run in two phases only, in both of which the firewall is up.            *)
(***************************************************************************)
Starting == {"listen", "password", "runtime", "reconcile", "restore"}
InService == {"serving", "draining"}
Cleaning == {"nodes", "network", "firewall", "statistics", "log"}

RunTyped ==
  /\ svc_phase \in {"down"} \cup Starting \cup InService \cup Cleaning
  /\ svc_part \in [Run!Components -> {"none", "running", "sending", "done"}]
  /\ svc_up \subseteq {"sockets", "firewall", "network", "nodes", "log"}
  /\ svc_exit # "none" => svc_phase = "down"

ComponentsServe ==
  \A c \in Run!Components : svc_part[c] \in {"running", "sending"} => svc_phase \in InService

NodesAreLast ==
  /\ svc_phase \in {"down"} \cup Starting => "nodes" \notin svc_up
  /\ svc_phase \in Starting => ~svc_late
  /\ svc_phase \in {"reconcile", "restore", "nodes", "network", "firewall"} \cup InService =>
       "firewall" \in svc_up
  /\ svc_phase \in Cleaning \ {"nodes"} => "nodes" \notin svc_up \/ "nodes" \in svc_stuck \/ svc_late

Gone(what) == what \notin svc_up \/ what \in svc_stuck

CleansUp ==
  /\ svc_phase \in Cleaning \cup {"draining"} => (svc_stopping \/ svc_lost) /\ "sockets" \notin svc_up
  /\ svc_phase \in {"firewall", "statistics", "log"} => Gone("network") \/ svc_late
  /\ svc_phase \in {"statistics", "log"} => Gone("firewall") \/ svc_late
  /\ svc_exit = "ok" => svc_stopping /\ (svc_up = {} \/ svc_late)

Ordered == RunTyped /\ ComponentsServe /\ NodesAreLast /\ CleansUp

LEMMA StartKeepsOrder ==
  ASSUME Ordered,
         \/ Run!Build \/ Run!Listen \/ Run!InitializePassword \/ Run!InitializeRuntime
         \/ Run!Reconcile \/ Run!ReconcileFails \/ Run!ReconcileGivenUp \/ Run!RestoreNodes
  PROVE  Ordered'
<1> USE DEF Ordered, RunTyped, ComponentsServe, NodesAreLast, CleansUp, Gone, Starting, InService,
            Cleaning
<1>1. CASE Run!Build
  BY <1>1 DEF Run!Build, Run!InKernel
<1>2. CASE Run!Listen
  BY <1>2 DEF Run!Listen, Run!Starts
<1>3. CASE Run!InitializePassword
  BY <1>3 DEF Run!InitializePassword, Run!Starts
<1>4. CASE Run!InitializeRuntime
  BY <1>4 DEF Run!InitializeRuntime, Run!Starts
<1>5. CASE Run!Reconcile
  BY <1>5 DEF Run!Reconcile, Run!Starts
<1>6. CASE Run!ReconcileFails
  BY <1>6 DEF Run!ReconcileFails
<1>7. CASE Run!ReconcileGivenUp
  BY <1>7 DEF Run!ReconcileGivenUp, Run!Starts
<1>8. CASE Run!RestoreNodes
  BY <1>8 DEF Run!RestoreNodes
<1> QED BY <1>1, <1>2, <1>3, <1>4, <1>5, <1>6, <1>7, <1>8

LEMMA ServiceKeepsOrder ==
  ASSUME Ordered,
         \/ Run!SaveResources \/ Run!StartNode \/ Run!Damage \/ Run!Stop \/ Run!HTTPReturnsEarly
         \/ Run!StartLateNode \/ Run!UndoLate \/ Run!SeeStop \/ Run!SeeResult \/ Run!Wait
         \/ \E c \in Run!Components : Run!ComponentReturns(c) \/ Run!ComponentSends(c)
  PROVE  Ordered'
<1> USE DEF Ordered, RunTyped, ComponentsServe, NodesAreLast, CleansUp, Gone, Starting, InService,
            Cleaning
<1>1. CASE Run!SaveResources
  BY <1>1 DEF Run!SaveResources
<1>2. CASE Run!StartNode
  BY <1>2 DEF Run!StartNode
<1>3. CASE Run!Damage
  BY <1>3 DEF Run!Damage
<1>4. CASE Run!Stop
  BY <1>4 DEF Run!Stop
<1>5. CASE Run!HTTPReturnsEarly
  BY <1>5 DEF Run!HTTPReturnsEarly, Run!Components
<1>6. CASE Run!StartLateNode
  BY <1>6 DEF Run!StartLateNode
<1>7. CASE Run!SeeStop
  BY <1>7 DEF Run!SeeStop, Run!Drains
<1>8. CASE Run!SeeResult
  BY <1>8 DEF Run!SeeResult, Run!Drains
<1>9. CASE Run!Wait
  BY <1>9 DEF Run!Wait
<1>10. ASSUME NEW c \in Run!Components, Run!ComponentReturns(c)
       PROVE  Ordered'
  BY <1>10 DEF Run!ComponentReturns
<1>11. ASSUME NEW c \in Run!Components, Run!ComponentSends(c)
       PROVE  Ordered'
  BY <1>11 DEF Run!ComponentSends
<1>12. CASE Run!UndoLate
  BY <1>12 DEF Run!UndoLate
<1> QED BY <1>1, <1>2, <1>3, <1>4, <1>5, <1>6, <1>7, <1>8, <1>9, <1>10, <1>11, <1>12

LEMMA CleanupKeepsOrder ==
  ASSUME Ordered, Run!Cleanup \/ Run!StartFails \/ Run!RuntimeFails \/ Run!Crash
  PROVE  Ordered'
<1> USE DEF Ordered, RunTyped, ComponentsServe, NodesAreLast, CleansUp, Gone, Starting, InService,
            Cleaning
<1>1. CASE Run!ShutdownNodes
  BY <1>1 DEF Run!ShutdownNodes, Run!Cleans
<1>2. CASE Run!ShutdownNetwork
  BY <1>2 DEF Run!ShutdownNetwork, Run!Cleans
<1>3. CASE Run!ShutdownFirewall
  BY <1>3 DEF Run!ShutdownFirewall, Run!Cleans
<1>4. CASE Run!SaveStatistics
  BY <1>4 DEF Run!SaveStatistics, Run!Cleans
<1>5. CASE Run!CloseLog
  BY <1>5 DEF Run!CloseLog, Run!Ends
<1>6. CASE Run!StartFails
  BY <1>6 DEF Run!StartFails, Run!Ends, Run!InKernel
<1>7. CASE Run!RuntimeFails
  BY <1>7 DEF Run!RuntimeFails, Run!Ends, Run!InKernel
<1>8. CASE Run!Crash
  BY <1>8 DEF Run!Crash, Run!Ends, Run!InKernel
<1> QED BY <1>1, <1>2, <1>3, <1>4, <1>5, <1>6, <1>7, <1>8 DEF Run!Cleanup

(***************************************************************************)
(* Nodes never serve without the firewall, the cleanup takes down what     *)
(* they need after them, and only a process that was told to stop and left *)
(* nothing behind ends well, but for what a request brings back that       *)
(* outlasts its server, whatever fails and however many attempts and       *)
(* faults there are.                                                       *)
(***************************************************************************)
THEOREM CleanupInOrder == Run!Spec => []EndsInOrder
<1>1. Run!Init => Ordered
  BY DEF Run!Init, Ordered, RunTyped, ComponentsServe, NodesAreLast, CleansUp, Gone, Starting,
         InService, Cleaning
<1>2. ASSUME Ordered, [Run!Next]_(Run!vars) PROVE Ordered'
  <2>1. CASE UNCHANGED Run!vars
    BY <1>2, <2>1 DEF Run!vars, Ordered, RunTyped, ComponentsServe, NodesAreLast, CleansUp, Gone
  <2> QED
    BY <1>2, <2>1, StartKeepsOrder, ServiceKeepsOrder, CleanupKeepsOrder DEF Run!Next, Run!Cleanup
<1>3. Ordered => Run!EndsInOrder
  BY DEF Ordered, RunTyped, NodesAreLast, CleansUp, Starting, InService, Cleaning, Run!EndsInOrder
<1> QED BY <1>1, <1>2, <1>3, PTL DEF Run!Spec, EndsInOrder

-----------------------------------------------------------------------------
(***************************************************************************)
(* The streams of the event log.  Events are published in the order of     *)
(* their numbers, so the event at the head of a channel says where its     *)
(* reader stands.  The channel of an open stream shows the end of what its *)
(* write has told it; how far its reader may be behind that depends on     *)
(* where the write stands with this channel.                               *)
(***************************************************************************)
Told(r) ==
  IF log_step[r] = "idle" THEN Len(log_published) ELSE Len(log_published) - 1

PublishedInOrder ==
  /\ log_last \in Nat /\ log_published \in Seq(1..log_last)
  /\ \A a, b \in 1..Len(log_published) : a < b => log_published[a] < log_published[b]

\* Channel q is the end of the first t events of p.
Shows(p, t, q) == \A i \in 1..Len(q) : q[i] = p[t - Len(q) + i]

\* t events were told, n are in the channel, its reader r is past s.
Level(t, n, s, st, r, slow) ==
  /\ t \in Nat /\ n \in Nat /\ s \in Nat /\ n + s <= t /\ n <= log_buffer
  /\ n + s < t => r \in slow /\ (st # "retry" => n > 0)
  /\ n + s + 1 < t => n = log_buffer \/ (st = "retry" /\ n + 1 = log_buffer)
  /\ st = "drop" => r \in slow /\ (n + s < t => n = log_buffer)
  /\ st = "retry" => n < log_buffer

StreamOf(r) ==
  /\ log_queue[r] \in Seq(Nat)
  /\ log_step[r] \in {"idle", "offer", "drop", "retry"}
  /\ r \notin log_open => log_queue[r] = << >> /\ log_step[r] = "idle"
  /\ r \in log_open =>
       /\ Level(Told(r), Len(log_queue[r]), log_seen[r], log_step[r], r, log_lagged)
       /\ Shows(log_published, Told(r), log_queue[r])

Streams ==
  /\ PublishedInOrder
  /\ log_queue = [r \in log_readers |-> log_queue[r]]
  /\ log_seen = [r \in log_readers |-> log_seen[r]]
  /\ log_step = [r \in log_readers |-> log_step[r]]
  /\ log_open \subseteq log_readers
  /\ \A r \in log_readers : StreamOf(r)

LEMMA PublishedCount ==
  ASSUME PublishedInOrder
  PROVE  /\ Len(log_published) \in Nat /\ DOMAIN log_published = 1..Len(log_published)
         /\ \A i \in 1..Len(log_published) : log_published[i] \in 1..log_last
         /\ log_published \in Seq(Nat)
<1>1. 1..log_last \subseteq Nat
  OBVIOUS
<1>2. log_published \in Seq(Nat)
  BY <1>1, SeqMonotonic DEF PublishedInOrder
<1> QED BY <1>2, LenProperties, ElementOfSeq DEF PublishedInOrder

\* An event enters the channel, leaves it, or is still to come.
LEMMA LevelMoves ==
  ASSUME LogLimits, NEW t, NEW n, NEW s, NEW st, NEW r, NEW slow, Level(t, n, s, st, r, slow)
  PROVE  /\ st \in {"offer", "retry"} /\ n < log_buffer => Level(t + 1, n + 1, s, "idle", r, slow)
         /\ st = "offer" /\ ~(n < log_buffer) => Level(t, n, s, "drop", r, slow \cup {r})
         /\ st = "drop" /\ n > 0 => Level(t, n - 1, s, "retry", r, slow)
         /\ st = "drop" /\ n = 0 => Level(t, n, s, "retry", r, slow)
         /\ n > 0 => \A L : (st = "drop" => r \in L) => Level(t, n - 1, t - n + 1, st, r, L)
BY SMT DEF Level, LogLimits

\* The next event goes to the end of the channel.
LEMMA AppendShows ==
  ASSUME NEW p, NEW t \in Nat, NEW q \in Seq(Nat), Shows(p, t, q), p[t + 1] \in Nat
  PROVE  /\ Append(q, p[t + 1]) \in Seq(Nat) /\ Len(Append(q, p[t + 1])) = Len(q) + 1
         /\ Shows(p, t + 1, Append(q, p[t + 1]))
<1>n. PICK n : n = Len(q)
  OBVIOUS
<1>e. PICK e : e = p[t + 1]
  OBVIOUS
<1>r. PICK r : r = Append(q, e)
  OBVIOUS
<1>1. /\ n \in Nat /\ r \in Seq(Nat) /\ Len(r) = n + 1 /\ r[n + 1] = e
      /\ \A i \in 1..n : r[i] = q[i]
  BY <1>n, <1>e, <1>r, LenProperties, AppendProperties
<1>2. ASSUME NEW i \in 1..(n + 1) PROVE r[i] = p[t + 1 - (n + 1) + i]
  <2>1. CASE i = n + 1
    <3>1. t + 1 - (n + 1) + i = t + 1
      BY <1>1, <2>1
    <3> QED BY <1>e, <1>1, <2>1, <3>1
  <2>2. CASE i # n + 1
    <3>1. i \in 1..n /\ t + 1 - (n + 1) + i = t - n + i
      <4>1. n \in Nat
        BY <1>1
      <4> QED BY <4>1, <1>2, <2>2
    <3>2. q[i] = p[t - n + i]
      BY <1>n, <3>1 DEF Shows
    <3> QED BY <1>1, <3>1, <3>2
  <2> QED BY <2>1, <2>2
<1>3. Shows(p, t + 1, r)
  BY <1>1, <1>2 DEF Shows
<1> QED BY <1>n, <1>e, <1>r, <1>1, <1>3

\* The oldest goes, to the reader or to nobody.
LEMMA TailShows ==
  ASSUME NEW p, NEW t \in Nat, NEW q \in Seq(Nat), q # << >>, Shows(p, t, q)
  PROVE  /\ Tail(q) \in Seq(Nat) /\ Len(q) \in Nat \ {0} /\ Len(Tail(q)) = Len(q) - 1
         /\ Shows(p, t, Tail(q)) /\ Head(q) = p[t - Len(q) + 1]
<1>n. PICK n : n = Len(q)
  OBVIOUS
<1>u. PICK u : u = Tail(q)
  OBVIOUS
<1>1. n \in Nat \ {0}
  BY <1>n, LenProperties, EmptySeq
<1>2. u \in Seq(Nat) /\ Len(u) = n - 1 /\ \A i \in 1..(n - 1) : u[i] = q[i + 1]
  BY <1>n, <1>u, HeadTailProperties
<1>3. ASSUME NEW i \in 1..(n - 1) PROVE u[i] = p[t - (n - 1) + i]
  <2>1. i + 1 \in 1..n /\ t - n + (i + 1) = t - (n - 1) + i
    BY <1>1, <1>3
  <2>2. q[i + 1] = p[t - n + (i + 1)]
    BY <1>n, <2>1 DEF Shows
  <2> QED BY <1>2, <2>1, <2>2
<1>4. Head(q) = q[1] /\ q[1] = p[t - n + 1]
  BY <1>n, <1>1 DEF Shows
<1>5. Shows(p, t, u)
  BY <1>2, <1>3 DEF Shows
<1> QED BY <1>n, <1>u, <1>1, <1>2, <1>4, <1>5

\* What is published changes nothing of what was.
LEMMA MoreShows ==
  ASSUME NEW p, NEW m, NEW t \in Nat, NEW q \in Seq(Nat), Len(q) <= t, Shows(p, t, q),
         \A i \in 1..t : m[i] = p[i]
  PROVE  Shows(m, t, q)
<1>n. PICK n : n = Len(q)
  OBVIOUS
<1>1. n \in Nat /\ n <= t
  BY <1>n, LenProperties
<1>2. ASSUME NEW i \in 1..n PROVE q[i] = m[t - n + i]
  <2>1. t - n + i \in 1..t
    BY <1>1, <1>2
  <2>2. q[i] = p[t - n + i]
    BY <1>n, <1>2 DEF Shows
  <2> QED BY <2>1, <2>2
<1> QED BY <1>n, <1>2 DEF Shows

\* A step at one channel is none at another.
LEMMA OtherStream ==
  ASSUME NEW o, StreamOf(o), UNCHANGED log_published, log_queue'[o] = log_queue[o],
         log_seen'[o] = log_seen[o], log_step'[o] = log_step[o],
         o \in log_open' <=> o \in log_open, o \in log_lagged' <=> o \in log_lagged
  PROVE  StreamOf(o)'
<1>1. Told(o)' = Told(o)
  BY DEF Told
<1>2. ASSUME NEW t, NEW n, NEW s, NEW st, Level(t, n, s, st, o, log_lagged)
      PROVE  Level(t, n, s, st, o, log_lagged')
  BY <1>2 DEF Level
<1> QED BY <1>1, <1>2 DEF StreamOf

\* Whatever is written to files only, the streams stay.
LEMMA StreamsStay ==
  ASSUME Streams,
         UNCHANGED <<log_published, log_open, log_queue, log_seen, log_step, log_lagged>>,
         log_last' \in Nat, log_last' >= log_last
  PROVE  Streams'
<1>1. log_published' \in Seq(1..log_last')
  <2>1. 1..log_last \subseteq 1..log_last'
    BY DEF Streams, PublishedInOrder
  <2> QED BY <2>1, SeqMonotonic DEF Streams, PublishedInOrder
<1>2. PublishedInOrder'
  BY <1>1 DEF Streams, PublishedInOrder
<1>3. \A r \in log_readers : StreamOf(r)'
  BY OtherStream DEF Streams
<1> QED BY <1>2, <1>3 DEF Streams

\* An event is published: every open channel is about to be offered it.
LEMMA PublishStreams ==
  ASSUME LogLimits, Streams, Log!Quiet, Log!Publish(log_last + 1), log_last' = log_last + 1,
         UNCHANGED <<log_open, log_seen>>
  PROVE  Streams'
<1> PICK n : n = Len(log_published)
  OBVIOUS
<1>1. /\ n \in Nat /\ log_last \in Nat /\ log_published \in Seq(1..log_last)
      /\ \A i \in 1..n : log_published[i] \in 1..log_last
  BY PublishedCount DEF Streams, PublishedInOrder
<1>2. /\ log_published' \in Seq(1..log_last')
      /\ Len(log_published') = n + 1 /\ log_published'[n + 1] = log_last + 1
      /\ \A i \in 1..n : log_published'[i] = log_published[i]
  <2>1. 1..log_last \subseteq 1..log_last' /\ log_last + 1 \in 1..log_last'
    BY <1>1
  <2>2. log_published \in Seq(1..log_last')
    BY <1>1, <2>1, SeqMonotonic
  <2>3. log_published' = Append(log_published, log_last + 1)
    BY DEF Log!Publish
  <2> QED BY <2>1, <2>2, <2>3, AppendProperties
<1>3. PublishedInOrder'
  <2>1. ASSUME NEW a \in 1..(n + 1), NEW b \in 1..(n + 1), a < b
        PROVE  log_published'[a] < log_published'[b]
    <3>1. a \in 1..n
      BY <1>1, <2>1
    <3>2. CASE b = n + 1
      BY <1>1, <1>2, <3>1, <3>2
    <3>3. CASE b # n + 1
      <4>1. b \in 1..n
        BY <1>1, <3>3
      <4>2. log_published[a] < log_published[b]
        BY <2>1, <3>1, <4>1 DEF Streams, PublishedInOrder
      <4> QED BY <1>2, <3>1, <4>1, <4>2
    <3> QED BY <3>2, <3>3
  <2>2. \A a, b \in 1..Len(log_published') : a < b => log_published'[a] < log_published'[b]
    BY <1>2, <2>1
  <2> QED BY <1>1, <1>2, <2>2 DEF PublishedInOrder
<1>4. ASSUME NEW r \in log_readers PROVE StreamOf(r)'
  <2>0. /\ log_queue' = log_queue /\ log_seen' = log_seen /\ log_open' = log_open
        /\ log_lagged' = log_lagged /\ log_step[r] = "idle" /\ StreamOf(r)
    BY DEF Log!Publish, Log!Quiet, Streams
  <2>1. CASE r \notin log_open
    <3>1. log_step'[r] = "idle"
      BY <2>1 DEF Log!Publish
    <3> QED BY <2>0, <2>1, <3>1 DEF StreamOf
  <2>2. CASE r \in log_open
    <3>1. log_step'[r] = "offer"
      BY <2>2 DEF Log!Publish
    <3>2. Told(r) = n /\ Told(r)' = n
      BY <1>1, <1>2, <2>0, <3>1 DEF Told
    <3>3. /\ log_queue[r] \in Seq(Nat) /\ Shows(log_published, n, log_queue[r])
          /\ Level(n, Len(log_queue[r]), log_seen[r], "idle", r, log_lagged)
      BY <2>0, <2>2, <3>2 DEF StreamOf
    <3>4. Level(n, Len(log_queue[r]), log_seen[r], "offer", r, log_lagged)
      BY <3>3 DEF Level
    <3>5. Shows(log_published', n, log_queue[r])
      <4>1. Len(log_queue[r]) <= n
        BY <3>3 DEF Level
      <4> QED BY <1>1, <1>2, <3>3, <4>1, MoreShows
    <3> QED BY <2>0, <2>2, <3>1, <3>2, <3>3, <3>4, <3>5 DEF StreamOf
  <2> QED BY <2>1, <2>2
<1>5. log_step' = [r \in log_readers |-> log_step'[r]]
  BY DEF Log!Publish
<1>6. /\ log_queue' = [r \in log_readers |-> log_queue'[r]]
      /\ log_seen' = [r \in log_readers |-> log_seen'[r]] /\ log_open' \subseteq log_readers
  BY DEF Streams, Log!Publish
<1> QED BY <1>3, <1>4, <1>5, <1>6 DEF Streams

\* Where an open stream stands in the middle of a write.
LEMMA StreamAt ==
  ASSUME Streams, NEW r \in log_readers, log_step[r] # "idle"
  PROVE  /\ r \in log_open /\ log_queue[r] \in Seq(Nat)
         /\ Told(r) = Len(log_published) - 1 /\ Told(r) \in Nat
         /\ Log!Newest = log_published[Told(r) + 1] /\ Log!Newest \in Nat
         /\ Level(Told(r), Len(log_queue[r]), log_seen[r], log_step[r], r, log_lagged)
         /\ Shows(log_published, Told(r), log_queue[r])
<1>1. /\ r \in log_open /\ log_queue[r] \in Seq(Nat)
      /\ Level(Told(r), Len(log_queue[r]), log_seen[r], log_step[r], r, log_lagged)
      /\ Shows(log_published, Told(r), log_queue[r])
  BY DEF Streams, StreamOf
<1>2. Told(r) = Len(log_published) - 1 /\ Told(r) \in Nat
  BY <1>1 DEF Told, Level
<1>3. Len(log_published) \in 1..Len(log_published) /\ Told(r) + 1 = Len(log_published)
  BY <1>2, PublishedCount DEF Streams
<1>4. log_published[Len(log_published)] \in 1..log_last
  BY <1>3, PublishedCount DEF Streams
<1>5. Log!Newest = log_published[Told(r) + 1]
  BY <1>3 DEF Log!Newest
<1> QED BY <1>1, <1>2, <1>3, <1>4, <1>5 DEF Streams, PublishedInOrder

\* One channel changes, and what is said of it still holds.
LEMMA OneStream ==
  ASSUME Streams, NEW r \in log_readers, NEW q, NEW s, NEW st,
         UNCHANGED <<log_last, log_published, log_open>>,
         log_queue' = [log_queue EXCEPT ![r] = q], log_seen' = [log_seen EXCEPT ![r] = s],
         log_step' = [log_step EXCEPT ![r] = st],
         \A o \in log_readers \ {r} : o \in log_lagged' <=> o \in log_lagged,
         log_queue'[r] = q /\ log_seen'[r] = s /\ log_step'[r] = st => StreamOf(r)'
  PROVE  Streams'
<1>1. log_queue'[r] = q /\ log_seen'[r] = s /\ log_step'[r] = st
  BY DEF Streams
<1>2. ASSUME NEW o \in log_readers, o # r PROVE StreamOf(o)'
  <2>1. log_queue'[o] = log_queue[o] /\ log_seen'[o] = log_seen[o] /\ log_step'[o] = log_step[o]
    BY <1>2 DEF Streams
  <2> QED BY <1>2, <2>1, OtherStream DEF Streams
<1>3. \A o \in log_readers : StreamOf(o)'
  BY <1>1, <1>2
<1> QED BY <1>3 DEF Streams, PublishedInOrder

LEMMA OfferStreams ==
  ASSUME LogLimits, Streams, NEW r \in log_readers, Log!Offer(r)
  PROVE  Streams'
<1> PICK q : q = log_queue[r]
  OBVIOUS
<1> PICK t : t = Told(r)
  OBVIOUS
<1> PICK s : s = log_seen[r]
  OBVIOUS
<1>1. /\ r \in log_open /\ q \in Seq(Nat) /\ t = Len(log_published) - 1 /\ t \in Nat
      /\ Log!Newest = log_published[t + 1] /\ Log!Newest \in Nat
      /\ Level(t, Len(q), s, "offer", r, log_lagged) /\ Shows(log_published, t, q)
  BY StreamAt DEF Log!Offer
<1>2. /\ UNCHANGED <<log_last, log_published, log_open, log_seen>>
      /\ log_seen' = [log_seen EXCEPT ![r] = s]
  BY DEF Log!Offer, Log!logVars, Streams
<1>3. CASE Len(q) < log_buffer
  <2> PICK u : u = Append(q, Log!Newest)
    OBVIOUS
  <2>1. /\ log_queue' = [log_queue EXCEPT ![r] = u] /\ log_step' = [log_step EXCEPT ![r] = "idle"]
        /\ log_lagged' = log_lagged
    BY <1>3 DEF Log!Offer, Log!Sends, Log!Goes
  <2>u. u = Append(q, log_published[t + 1])
    BY <1>1
  <2>2. u \in Seq(Nat) /\ Len(u) = Len(q) + 1 /\ Shows(log_published, t + 1, u)
    BY <1>1, <2>u, AppendShows
  <2>3. Level(t + 1, Len(u), s, "idle", r, log_lagged)
    BY <1>1, <1>3, <2>2, LevelMoves
  <2>4. ASSUME log_queue'[r] = u, log_seen'[r] = s, log_step'[r] = "idle" PROVE StreamOf(r)'
    <3>1. Told(r)' = t + 1
      BY <1>1, <1>2, <2>4 DEF Told
    <3> QED BY <1>1, <1>2, <2>1, <2>2, <2>3, <2>4, <3>1 DEF StreamOf
  <2> QED BY <1>2, <2>1, <2>4, OneStream
<1>4. CASE ~(Len(q) < log_buffer)
  <2>1. /\ log_queue' = [log_queue EXCEPT ![r] = q] /\ log_step' = [log_step EXCEPT ![r] = "drop"]
        /\ log_lagged' = log_lagged \cup {r}
    BY <1>4 DEF Log!Offer, Log!Goes, Streams
  <2>2. Level(t, Len(q), s, "drop", r, log_lagged')
    BY <1>1, <1>4, <2>1, LevelMoves
  <2>3. ASSUME log_queue'[r] = q, log_seen'[r] = s, log_step'[r] = "drop" PROVE StreamOf(r)'
    <3>1. Told(r)' = t /\ r \in log_lagged'
      BY <1>1, <1>2, <2>1, <2>3 DEF Told
    <3> QED BY <1>1, <1>2, <2>1, <2>2, <2>3, <3>1 DEF StreamOf
  <2> QED BY <1>2, <2>1, <2>3, OneStream
<1> QED BY <1>3, <1>4

LEMMA DropStreams ==
  ASSUME LogLimits, Streams, NEW r \in log_readers, Log!Drop(r)
  PROVE  Streams'
<1> PICK q : q = log_queue[r]
  OBVIOUS
<1> PICK t : t = Told(r)
  OBVIOUS
<1> PICK s : s = log_seen[r]
  OBVIOUS
<1> PICK u : u = IF q = << >> THEN q ELSE Tail(q)
  OBVIOUS
<1>1. /\ r \in log_open /\ q \in Seq(Nat) /\ t = Len(log_published) - 1 /\ t \in Nat
      /\ Level(t, Len(q), s, "drop", r, log_lagged) /\ Shows(log_published, t, q)
  BY StreamAt DEF Log!Drop
<1>2. /\ UNCHANGED <<log_last, log_published, log_open, log_seen, log_lagged>>
      /\ log_seen' = [log_seen EXCEPT ![r] = s] /\ log_queue' = [log_queue EXCEPT ![r] = u]
      /\ log_step' = [log_step EXCEPT ![r] = "retry"]
  BY DEF Log!Drop, Log!Goes, Log!logVars, Streams
<1>3. /\ u \in Seq(Nat) /\ Shows(log_published, t, u)
      /\ Level(t, Len(u), s, "retry", r, log_lagged)
  <2>1. CASE q = << >>
    <3>1. Len(q) = 0
      BY <2>1, EmptySeq
    <3>2. Level(t, Len(u), s, "retry", r, log_lagged)
      BY <1>1, <2>1, <3>1, LevelMoves
    <3> QED BY <1>1, <2>1, <3>2
  <2>2. CASE q # << >>
    <3>1. /\ u \in Seq(Nat) /\ Len(q) \in Nat \ {0} /\ Len(u) = Len(q) - 1
          /\ Shows(log_published, t, u)
      BY <1>1, <2>2, TailShows
    <3>2. Level(t, Len(u), s, "retry", r, log_lagged)
      <4>1. Len(q) > 0
        BY <3>1
      <4> QED BY <1>1, <3>1, <4>1, LevelMoves
    <3> QED BY <3>1, <3>2
  <2> QED BY <2>1, <2>2
<1>4. ASSUME log_queue'[r] = u, log_seen'[r] = s, log_step'[r] = "retry" PROVE StreamOf(r)'
  <2>1. Told(r)' = t
    BY <1>1, <1>2, <1>4 DEF Told
  <2> QED BY <1>1, <1>2, <1>3, <1>4, <2>1 DEF StreamOf
<1> QED BY <1>2, <1>4, OneStream

LEMMA RetryStreams ==
  ASSUME LogLimits, Streams, NEW r \in log_readers, Log!Retry(r)
  PROVE  Streams'
<1> PICK q : q = log_queue[r]
  OBVIOUS
<1> PICK t : t = Told(r)
  OBVIOUS
<1> PICK s : s = log_seen[r]
  OBVIOUS
<1> PICK u : u = Append(q, Log!Newest)
  OBVIOUS
<1>1. /\ r \in log_open /\ q \in Seq(Nat) /\ t = Len(log_published) - 1 /\ t \in Nat
      /\ Log!Newest = log_published[t + 1] /\ Log!Newest \in Nat
      /\ Level(t, Len(q), s, "retry", r, log_lagged) /\ Shows(log_published, t, q)
  BY StreamAt DEF Log!Retry
<1>2. Len(q) < log_buffer
  BY <1>1 DEF Level
<1>3. /\ UNCHANGED <<log_last, log_published, log_open, log_seen, log_lagged>>
      /\ log_seen' = [log_seen EXCEPT ![r] = s] /\ log_queue' = [log_queue EXCEPT ![r] = u]
      /\ log_step' = [log_step EXCEPT ![r] = "idle"]
  BY <1>2 DEF Log!Retry, Log!Sends, Log!Goes, Log!logVars, Streams
<1>u. u = Append(q, log_published[t + 1])
  BY <1>1
<1>4. u \in Seq(Nat) /\ Len(u) = Len(q) + 1 /\ Shows(log_published, t + 1, u)
  BY <1>1, <1>u, AppendShows
<1>5. Level(t + 1, Len(u), s, "idle", r, log_lagged)
  BY <1>1, <1>2, <1>4, LevelMoves
<1>6. ASSUME log_queue'[r] = u, log_seen'[r] = s, log_step'[r] = "idle" PROVE StreamOf(r)'
  <2>1. Told(r)' = t + 1
    BY <1>1, <1>3, <1>6 DEF Told
  <2> QED BY <1>1, <1>3, <1>4, <1>5, <1>6, <2>1 DEF StreamOf
<1> QED BY <1>3, <1>6, OneStream

\* A reader takes the first event of its channel: the number of the event says which it is.
LEMMA ReceiveStreams ==
  ASSUME LogLimits, Streams, NEW r \in log_readers, Log!Receive(r)
  PROVE  Streams'
<1> PICK p : p = Len(log_published)
  OBVIOUS
<1> PICK q : q = log_queue[r]
  OBVIOUS
<1> PICK t : t = Told(r)
  OBVIOUS
<1> PICK st : st = log_step[r]
  OBVIOUS
<1> PICK n : n = Len(q)
  OBVIOUS
<1> PICK k : k = t - n + 1
  OBVIOUS
<1>1. /\ p \in Nat /\ r \in log_open /\ q \in Seq(Nat) /\ q # << >> /\ t \in Nat /\ t <= p
      /\ st \in {"idle", "offer", "drop", "retry"}
      /\ Level(t, n, log_seen[r], st, r, log_lagged) /\ Shows(log_published, t, q)
      /\ t = IF st = "idle" THEN p ELSE p - 1
  <2>1. /\ r \in log_open /\ q # << >> /\ StreamOf(r) /\ p \in Nat
    BY PublishedCount DEF Streams, Log!Receive
  <2>2. /\ q \in Seq(Nat) /\ st \in {"idle", "offer", "drop", "retry"}
        /\ Level(t, n, log_seen[r], st, r, log_lagged) /\ Shows(log_published, t, q)
    BY <2>1 DEF StreamOf
  <2>3. t \in Nat /\ t = IF st = "idle" THEN p ELSE p - 1
    BY <2>2 DEF Level, Told
  <2> QED BY <2>1, <2>2, <2>3
<1>2. /\ Tail(q) \in Seq(Nat) /\ n \in Nat \ {0} /\ Len(Tail(q)) = n - 1
      /\ Shows(log_published, t, Tail(q)) /\ Head(q) = log_published[k]
  <2>1. /\ Tail(q) \in Seq(Nat) /\ Len(q) \in Nat \ {0} /\ Len(Tail(q)) = Len(q) - 1
        /\ Shows(log_published, t, Tail(q)) /\ Head(q) = log_published[t - Len(q) + 1]
    <3>1. q \in Seq(Nat) /\ q # << >> /\ t \in Nat /\ Shows(log_published, t, q)
      BY <1>1
    <3> QED BY <3>1, TailShows
  <2> QED BY <2>1
<1>3. n <= t /\ k \in 1..p
  BY <1>1, <1>2 DEF Level
<1>4. (CHOOSE j \in DOMAIN log_published : log_published[j] = Head(q)) = k
  <2>1. \A j \in 1..p : log_published[j] = log_published[k] => j = k
    <3> SUFFICES ASSUME NEW j \in 1..p, log_published[j] = log_published[k], j # k PROVE FALSE
      OBVIOUS
    <3>1. log_published[j] \in 1..log_last /\ log_published[k] \in 1..log_last
      BY <1>3, PublishedCount DEF Streams
    <3>2. j < k \/ k < j
      BY <1>3
    <3> QED BY <1>3, <3>1, <3>2 DEF Streams, PublishedInOrder
  <2>2. DOMAIN log_published = 1..p
    BY PublishedCount DEF Streams
  <2> QED BY <1>2, <1>3, <2>1, <2>2
<1>5. /\ UNCHANGED <<log_last, log_published, log_open>>
      /\ log_queue' = [log_queue EXCEPT ![r] = Tail(q)] /\ log_seen' = [log_seen EXCEPT ![r] = k]
      /\ log_step' = [log_step EXCEPT ![r] = st]
      /\ log_lagged' = IF st = "drop" THEN log_lagged ELSE log_lagged \ {r}
  BY <1>4 DEF Log!Receive, Log!logVars, Streams
<1>6. Level(t, n - 1, k, st, r, log_lagged')
  <2>1. st = "drop" => r \in log_lagged'
    BY <1>1, <1>5 DEF Level
  <2>2. n > 0
    BY <1>2
  <2> QED BY <1>1, <2>1, <2>2, LevelMoves
<1>7. ASSUME log_queue'[r] = Tail(q), log_seen'[r] = k, log_step'[r] = st PROVE StreamOf(r)'
  <2>1. Told(r)' = t
    BY <1>1, <1>5, <1>7 DEF Told
  <2> QED BY <1>1, <1>2, <1>5, <1>6, <1>7, <2>1 DEF StreamOf
<1>8. \A o \in log_readers \ {r} : o \in log_lagged' <=> o \in log_lagged
  BY <1>5
<1> QED BY <1>5, <1>7, <1>8, OneStream

LEMMA SubscribeStreams ==
  ASSUME LogLimits, Streams, NEW r \in log_readers, Log!Subscribe(r)
  PROVE  Streams'
<1> PICK p : p = Len(log_published)
  OBVIOUS
<1>1. /\ UNCHANGED <<log_last, log_published, log_queue, log_step, log_lagged>>
      /\ r \notin log_open /\ log_open' = log_open \cup {r}
      /\ log_seen' = [log_seen EXCEPT ![r] = p] /\ p \in Nat
      /\ log_queue[r] = << >> /\ log_step[r] = "idle" /\ log_seen'[r] = p
  BY PublishedCount DEF Log!Subscribe, Log!logVars, Streams, StreamOf
<1>2. ASSUME NEW o \in log_readers PROVE StreamOf(o)'
  <2>1. CASE o # r
    <3>1. log_seen'[o] = log_seen[o] /\ (o \in log_open' <=> o \in log_open)
      BY <1>1, <2>1 DEF Streams
    <3> QED BY <1>1, <3>1, OtherStream DEF Streams
  <2>2. CASE o = r
    <3>1. << >> \in Seq(Nat) /\ Len(<< >>) = 0
      BY EmptySeq
    <3>2. Told(r)' = p
      BY <1>1 DEF Told
    <3>3. Level(p, 0, p, "idle", r, log_lagged')
      BY <1>1 DEF Level, LogLimits
    <3>4. Shows(log_published', p, << >>)
      BY <3>1 DEF Shows
    <3> QED BY <1>1, <2>2, <3>1, <3>2, <3>3, <3>4 DEF StreamOf
  <2> QED BY <2>1, <2>2
<1> QED BY <1>1, <1>2 DEF Streams, PublishedInOrder

LEMMA UnsubscribeStreams ==
  ASSUME Streams, NEW r \in log_readers, Log!Unsubscribe(r)
  PROVE  Streams'
<1>1. /\ UNCHANGED <<log_last, log_published, log_step>> /\ log_open' = log_open \ {r}
      /\ log_queue' = [log_queue EXCEPT ![r] = << >>]
      /\ log_seen' = [log_seen EXCEPT ![r] = 0] /\ log_lagged' = log_lagged \ {r}
      /\ log_step[r] = "idle" /\ log_queue'[r] = << >>
  BY DEF Log!Unsubscribe, Log!logVars, Log!Quiet, Streams
<1>2. ASSUME NEW o \in log_readers PROVE StreamOf(o)'
  <2>1. CASE o # r
    <3>1. /\ log_seen'[o] = log_seen[o] /\ log_queue'[o] = log_queue[o]
          /\ (o \in log_open' <=> o \in log_open) /\ (o \in log_lagged' <=> o \in log_lagged)
      BY <1>1, <2>1 DEF Streams
    <3> QED BY <1>1, <3>1, OtherStream DEF Streams
  <2>2. CASE o = r
    BY <1>1, <2>2, EmptySeq DEF StreamOf
  <2> QED BY <2>1, <2>2
<1> QED BY <1>1, <1>2 DEF Streams, PublishedInOrder

LEMMA Window ==
  ASSUME NEW p \in Seq(Nat), NEW q \in Seq(Nat), NEW t \in 0..Len(p), Len(q) <= t,
         Shows(p, t, q)
  PROVE  q = SubSeq(p, t - Len(q) + 1, t)
<1>n. PICK d : d = Len(q)
  OBVIOUS
<1>m. PICK m : m = t - d + 1
  OBVIOUS
<1>t. PICK u : u = SubSeq(p, m, t)
  OBVIOUS
<1>1. d \in 0..t /\ \A i \in 1..Len(p) : p[i] \in Nat
  BY <1>n, LenProperties, ElementOfSeq
<1>2. m \in Int /\ t \in Int /\ \A i \in m..t : p[i] \in Nat
  <2>1. Len(p) \in Nat
    BY LenProperties
  <2> QED BY <1>1, <1>m, <2>1
<1>3. /\ u \in Seq(Nat) /\ Len(u) = (IF m <= t THEN t - m + 1 ELSE 0)
      /\ \A i \in 1..(t - m + 1) : u[i] = p[m + i - 1]
  BY <1>2, <1>t, SubSeqProperties
<1>4. Len(u) = d /\ t - m + 1 = d /\ \A i \in 1..d : m + i - 1 = t - d + i
  BY <1>1, <1>3, <1>m
<1>5. \A i \in 1..d : u[i] = p[t - d + i]
  BY <1>3, <1>4
<1>6. \A i \in 1..d : q[i] = p[t - d + i]
  BY <1>n DEF Shows
<1>7. q \in Seq(Nat) /\ u \in Seq(Nat) /\ Len(q) = Len(u) /\ \A i \in 1..Len(q) : q[i] = u[i]
  BY <1>3, <1>4, <1>5, <1>6, <1>n
<1>8. q = u
  BY <1>7, SeqEqual
<1> QED BY <1>8, <1>n, <1>m, <1>t

LEMMA StepStreams ==
  ASSUME LogLimits, Streams, [Log!Next]_(Log!vars)
  PROVE  Streams'
<1>0. log_last \in Nat
  BY DEF Streams, PublishedInOrder
<1> DEFINE Stays ==
      UNCHANGED <<log_published, log_open, log_queue, log_seen, log_step, log_lagged>>
<1>3. CASE Log!Write
  BY <1>3, PublishStreams DEF Log!Write, Log!Persist
<1>4. CASE Log!Clear
  BY <1>4, PublishStreams DEF Log!Clear
<1>5. CASE Log!WriteHalf
  <2>1. Stays /\ log_last' = log_last + 1
    BY <1>5 DEF Log!WriteHalf, Log!Persist
  <2> QED BY <1>0, <2>1, StreamsStay
<1>6. ASSUME Stays, UNCHANGED log_last PROVE Streams'
  BY <1>0, <1>6, StreamsStay
<1>7. CASE Log!WriteFails
  BY <1>6, <1>7 DEF Log!WriteFails, Log!streamVars
<1>8. ASSUME NEW k, Log!RotateFails(k) PROVE Streams'
  BY <1>6, <1>8 DEF Log!RotateFails, Log!streamVars
<1>9. ASSUME NEW k, Log!ClearFails(k) PROVE Streams'
  BY <1>6, <1>9 DEF Log!ClearFails, Log!streamVars
<1>10. ASSUME NEW k, Log!Restart(k) PROVE Streams'
  <2>1. /\ UNCHANGED log_last /\ log_published' = << >> /\ log_open' = {}
        /\ log_queue' = [r \in log_readers |-> << >>] /\ log_seen' = [r \in log_readers |-> 0]
        /\ log_step' = [r \in log_readers |-> "idle"]
    BY <1>10 DEF Log!Restart
  <2>2. PublishedInOrder'
    BY <1>0, <2>1, EmptySeq DEF PublishedInOrder
  <2>3. \A r \in log_readers : StreamOf(r)'
    BY <2>1, EmptySeq DEF StreamOf
  <2> QED BY <2>1, <2>2, <2>3 DEF Streams
<1>11. CASE UNCHANGED Log!vars
  BY <1>6, <1>11 DEF Log!vars, Log!logVars, Log!streamVars
<1> HIDE DEF Stays
<1> QED
  BY <1>3, <1>4, <1>5, <1>7, <1>8, <1>9, <1>10, <1>11, SubscribeStreams, UnsubscribeStreams,
     ReceiveStreams, OfferStreams, DropStreams, RetryStreams DEF Log!Next

(***************************************************************************)
(* The channel of an open stream holds the last of the events that its     *)
(* write has told, in order and without a gap, and misses events only      *)
(* where it was full, for any number of readers and any capacity, whenever *)
(* the readers take an event.                                              *)
(***************************************************************************)
THEOREM StreamsAreNewest == Log!Spec => []StreamIsNewest
<1>. LogLimits
  BY LogAssumption
<1>1. ASSUME Log!Init PROVE Streams
  <2>1. PublishedInOrder
    BY <1>1, EmptySeq DEF Log!Init, PublishedInOrder
  <2>2. \A r \in log_readers : StreamOf(r)
    BY <1>1, EmptySeq DEF Log!Init, StreamOf
  <2> QED BY <1>1, <2>1, <2>2 DEF Log!Init, Streams
<1>2. Streams /\ [Log!Next]_(Log!vars) => Streams'
  BY StepStreams
<1>3. ASSUME Streams PROVE Log!StreamIsNewest
  <2> SUFFICES ASSUME NEW r \in log_open
      PROVE  LET n == Len(log_queue[r])
                 missing == Told(r) - (log_seen[r] + n)
             IN  /\ log_queue[r] = SubSeq(log_published, Told(r) - n + 1, Told(r))
                 /\ missing >= 0
                 /\ missing > 0 => r \in log_lagged
                 /\ missing > 0 /\ log_step[r] = "idle" => n > 0
                 /\ missing > 1 /\ log_step[r] = "idle" => n = log_buffer
    BY DEF Log!StreamIsNewest, Told
  <2> PICK t : t = Told(r)
    OBVIOUS
  <2> PICK n : n = Len(log_queue[r])
    OBVIOUS
  <2>1. /\ log_queue[r] \in Seq(Nat) /\ Shows(log_published, t, log_queue[r])
        /\ Level(t, n, log_seen[r], log_step[r], r, log_lagged)
    BY <1>3 DEF Streams, StreamOf
  <2>2. Len(log_published) \in Nat /\ log_published \in Seq(Nat)
    BY <1>3, PublishedCount DEF Streams
  <2>3. t \in 0..Len(log_published) /\ n <= t
    BY <2>1, <2>2 DEF Level, Told
  <2>4. log_queue[r] = SubSeq(log_published, t - n + 1, t)
    BY <2>1, <2>2, <2>3, Window
  <2>5. /\ t - (log_seen[r] + n) >= 0
        /\ t - (log_seen[r] + n) > 0 => r \in log_lagged
        /\ t - (log_seen[r] + n) > 0 /\ log_step[r] = "idle" => n > 0
        /\ t - (log_seen[r] + n) > 1 /\ log_step[r] = "idle" => n = log_buffer
    BY <2>1 DEF Level
  <2> QED BY <2>4, <2>5
<1> QED BY <1>1, <1>2, <1>3, PTL DEF Log!Spec, StreamIsNewest

(***************************************************************************)
(* The files of the event log.  Their order is the order of the events;    *)
(* what a rotation takes away is the oldest file, whatever number of steps *)
(* it gets through, and as long as nothing fails the numbers say where     *)
(* each event is: every older file is full, and follows the one before it. *)
(***************************************************************************)
Sound(fs, n) ==
  /\ DOMAIN fs \subseteq 0..log_backups /\ fs = [i \in DOMAIN fs |-> fs[i]]
  /\ \A i \in DOMAIN fs : fs[i] \in Seq(1..n)
  /\ \A i, j \in DOMAIN fs : \A a \in DOMAIN fs[i], b \in DOMAIN fs[j] :
       (i > j \/ (i = j /\ a < b)) => fs[i][a] < fs[j][b]

\* What is gone is older than what is left.
OlderGone(events, fs) == \A e \in events \ Log!Lines(fs) : \A d \in Log!Lines(fs) : e < d

Consecutive(fs, n) ==
  /\ 0 \in DOMAIN fs /\ Len(fs[0]) <= log_lines_max
  /\ \A a \in 1..Len(fs[0]) : fs[0][a] = n - Len(fs[0]) + a
  /\ \A i \in DOMAIN fs \ {0} :
       /\ Len(fs[i]) = log_lines_max
       /\ \A a \in 1..log_lines_max : fs[i][a] = n - Len(fs[0]) - i * log_lines_max + a

FarBehind(events, fs) ==
  \A e \in events \ Log!Lines(fs) : e + log_backups * log_lines_max <= log_last

InSequence ==
  /\ log_usable /\ Consecutive(log_files, log_last)
  /\ FarBehind(log_kept \ log_cleared, log_files)

LogCounts ==
  /\ log_last \in Nat /\ log_faults \in Nat /\ log_kept \subseteq 1..log_last
  /\ log_usable => 0 \in DOMAIN log_files /\ log_size = Len(log_files[0])

LogFiles ==
  /\ LogCounts /\ Sound(log_files, log_last)
  /\ OlderGone(log_kept \ log_cleared, log_files)
  /\ log_faults = 0 => InSequence

LEMMA LinesOf ==
  ASSUME NEW fs, NEW e
  PROVE  e \in Log!Lines(fs) <=> \E i \in DOMAIN fs : \E a \in DOMAIN fs[i] : e = fs[i][a]
BY DEF Log!Lines

\* The file that gets the number i by the first k steps of a rotation.
From(k, i) == IF i > log_backups + 1 - k THEN i - 1 ELSE i

LEMMA ShiftedFiles ==
  ASSUME NEW k, k # 0
  PROVE  /\ DOMAIN Log!Shifted(k) =
              {j \in 0..log_backups : j # log_backups + 1 - k /\ From(k, j) \in DOMAIN log_files}
         /\ \A i \in DOMAIN Log!Shifted(k) : Log!Shifted(k)[i] = log_files[From(k, i)]
         /\ Log!Shifted(k) = [i \in DOMAIN Log!Shifted(k) |-> Log!Shifted(k)[i]]
BY DEF Log!Shifted, From

LEMMA FromIsMonotone ==
  ASSUME log_backups \in Nat, NEW k \in 1..(log_backups + 1), NEW i \in 0..log_backups,
         NEW j \in 0..log_backups, i # log_backups + 1 - k, j # log_backups + 1 - k, i > j
  PROVE  From(k, i) > From(k, j)
BY DEF From

\* Every number below the last is the one of a file after the steps.
LEMMA FromReachesAll ==
  ASSUME log_backups \in Nat, NEW k \in 1..(log_backups + 1), NEW m \in 0..(log_backups - 1)
  PROVE  \E i \in 0..log_backups : i # log_backups + 1 - k /\ From(k, i) = m
<1>1. CASE m < log_backups + 1 - k
  BY <1>1 DEF From
<1>2. CASE m >= log_backups + 1 - k
  <2>1. m + 1 \in 0..log_backups /\ m + 1 # log_backups + 1 - k /\ From(k, m + 1) = m
    BY <1>2 DEF From
  <2> QED BY <2>1
<1> QED BY <1>1, <1>2

LEMMA ShiftedSound ==
  ASSUME LogLimits, LogFiles, NEW k \in Log!Steps
  PROVE  /\ Sound(Log!Shifted(k), log_last)
         /\ Log!Lines(Log!Shifted(k)) \subseteq Log!Lines(log_files)
         /\ \A e \in Log!Lines(log_files) \ Log!Lines(Log!Shifted(k)) :
              /\ log_backups \in DOMAIN log_files
              /\ \E a \in DOMAIN log_files[log_backups] : e = log_files[log_backups][a]
              /\ \A d \in Log!Lines(Log!Shifted(k)) : e < d
<1> PICK fs : fs = Log!Shifted(k)
  OBVIOUS
<1>1. CASE k = 0
  <2>1. fs = log_files
    BY <1>1 DEF Log!Shifted
  <2> QED BY <2>1 DEF LogFiles
<1>2. CASE k # 0
  <2>0. k \in 1..(log_backups + 1) /\ log_backups \in Nat
    BY <1>2 DEF Log!Steps, LogLimits
  <2>1. /\ DOMAIN fs = {j \in 0..log_backups :
                          j # log_backups + 1 - k /\ From(k, j) \in DOMAIN log_files}
        /\ \A i \in DOMAIN fs : fs[i] = log_files[From(k, i)]
        /\ fs = [i \in DOMAIN fs |-> fs[i]]
    BY <1>2, ShiftedFiles
  <2>2. /\ \A i \in DOMAIN log_files : log_files[i] \in Seq(1..log_last)
        /\ DOMAIN log_files \subseteq 0..log_backups
        /\ \A i, j \in DOMAIN log_files :
             \A a \in DOMAIN log_files[i], b \in DOMAIN log_files[j] :
               (i > j \/ (i = j /\ a < b)) => log_files[i][a] < log_files[j][b]
    BY DEF LogFiles, Sound
  <2>3. \A i, j \in DOMAIN fs : i > j => From(k, i) > From(k, j)
    BY <2>0, <2>1, FromIsMonotone
  <2>4. ASSUME NEW i \in DOMAIN fs, NEW j \in DOMAIN fs,
               NEW a \in DOMAIN fs[i], NEW b \in DOMAIN fs[j], i > j \/ (i = j /\ a < b)
        PROVE  fs[i][a] < fs[j][b]
    <3>1. /\ From(k, i) \in DOMAIN log_files /\ From(k, j) \in DOMAIN log_files
          /\ fs[i] = log_files[From(k, i)] /\ fs[j] = log_files[From(k, j)]
      BY <2>1
    <3>2. From(k, i) > From(k, j) \/ (From(k, i) = From(k, j) /\ a < b)
      BY <2>3, <2>4
    <3> QED BY <2>2, <3>1, <3>2
  <2>5. Sound(fs, log_last)
    BY <2>1, <2>2, <2>4 DEF Sound
  <2>6. Log!Lines(fs) \subseteq Log!Lines(log_files)
    BY <2>1, LinesOf
  <2>7. ASSUME NEW e \in Log!Lines(log_files) \ Log!Lines(fs)
        PROVE  /\ log_backups \in DOMAIN log_files
               /\ \E a \in DOMAIN log_files[log_backups] : e = log_files[log_backups][a]
               /\ \A d \in Log!Lines(fs) : e < d
    <3>1. PICK m \in DOMAIN log_files : \E a \in DOMAIN log_files[m] : e = log_files[m][a]
      BY <2>7, LinesOf
    <3>2. PICK a \in DOMAIN log_files[m] : e = log_files[m][a]
      BY <3>1
    <3>3. m = log_backups
      <4> SUFFICES ASSUME m # log_backups PROVE FALSE
        OBVIOUS
      <4>1. m \in 0..(log_backups - 1)
        BY <2>0, <2>2
      <4>2. PICK i \in 0..log_backups : i # log_backups + 1 - k /\ From(k, i) = m
        BY <2>0, <4>1, FromReachesAll
      <4>3. i \in DOMAIN fs /\ fs[i] = log_files[m]
        BY <2>1, <4>2
      <4> QED BY <2>7, <3>2, <4>3, LinesOf
    <3>4. ASSUME NEW d \in Log!Lines(fs) PROVE e < d
      <4>1. PICK i \in DOMAIN fs : \E b \in DOMAIN fs[i] : d = fs[i][b]
        BY <3>4, LinesOf
      <4>2. PICK b \in DOMAIN fs[i] : d = fs[i][b]
        BY <4>1
      <4>3. From(k, i) \in DOMAIN log_files /\ fs[i] = log_files[From(k, i)] /\ i \in 0..log_backups
            /\ i # log_backups + 1 - k
        BY <2>1
      <4>4. log_backups > From(k, i)
        BY <2>0, <4>3 DEF From
      <4> QED BY <2>2, <3>2, <3>3, <4>2, <4>3, <4>4
    <3> QED BY <3>2, <3>3, <3>4
  <2> QED BY <2>5, <2>6, <2>7
<1> QED BY <1>1, <1>2

LEMMA RotationTakesTheOldest ==
  ASSUME LogLimits, LogFiles, NEW k \in Log!Steps
  PROVE  OlderGone(log_kept \ log_cleared, Log!Shifted(k))
<1> PICK fs : fs = Log!Shifted(k)
  OBVIOUS
<1>1. /\ Log!Lines(fs) \subseteq Log!Lines(log_files)
      /\ \A e \in Log!Lines(log_files) \ Log!Lines(fs) : \A d \in Log!Lines(fs) : e < d
  BY ShiftedSound
<1>2. \A e \in (log_kept \ log_cleared) \ Log!Lines(log_files) : \A d \in Log!Lines(log_files) : e < d
  BY DEF LogFiles, OlderGone
<1> QED BY <1>1, <1>2 DEF OlderGone

\* Opening the current file adds no event and takes none.
LEMMA OpenedAgain ==
  ASSUME LogLimits, NEW fs, NEW n \in Nat, Sound(fs, n)
  PROVE  /\ Sound(Log!WithCurrent(fs), n) /\ Log!Lines(Log!WithCurrent(fs)) = Log!Lines(fs)
         /\ 0 \in DOMAIN Log!WithCurrent(fs)
<1> PICK gs : gs = Log!WithCurrent(fs)
  OBVIOUS
<1>1. /\ DOMAIN gs = DOMAIN fs \cup {0}
      /\ \A i \in DOMAIN fs : gs[i] = fs[i]
      /\ 0 \notin DOMAIN fs => gs[0] = << >>
      /\ gs = [i \in DOMAIN gs |-> gs[i]]
  BY DEF Log!WithCurrent
<1>2. DOMAIN << >> = {} /\ << >> \in Seq(1..n)
  OBVIOUS
<1>3. /\ DOMAIN gs \subseteq 0..log_backups
      /\ \A i \in DOMAIN gs : gs[i] \in Seq(1..n)
  BY <1>1, <1>2 DEF Sound, LogLimits
<1>4. ASSUME NEW i \in DOMAIN gs, NEW j \in DOMAIN gs,
             NEW a \in DOMAIN gs[i], NEW b \in DOMAIN gs[j], i > j \/ (i = j /\ a < b)
      PROVE  gs[i][a] < gs[j][b]
  <2>1. i \in DOMAIN fs /\ j \in DOMAIN fs /\ gs[i] = fs[i] /\ gs[j] = fs[j]
    BY <1>1, <1>2
  <2> QED BY <1>4, <2>1 DEF Sound
<1>5. Log!Lines(gs) = Log!Lines(fs)
  <2>1. ASSUME NEW e PROVE e \in Log!Lines(gs) <=> e \in Log!Lines(fs)
    <3>1. (\E i \in DOMAIN gs : \E a \in DOMAIN gs[i] : e = gs[i][a]) <=>
          (\E i \in DOMAIN fs : \E a \in DOMAIN fs[i] : e = fs[i][a])
      BY <1>1, <1>2
    <3> QED BY <3>1, LinesOf
  <2> QED BY <2>1
<1> QED BY <1>1, <1>3, <1>4, <1>5 DEF Sound

LEMMA LogRecovers ==
  ASSUME LogLimits, LogCounts, NEW fs, Sound(fs, log_last), Log!Recover(fs),
         UNCHANGED <<log_last, log_kept>>, OlderGone(log_kept \ log_cleared', fs)
  PROVE  LogFiles'
<1>0. log_last \in Nat /\ log_faults \in Nat
  BY DEF LogCounts
<1>1. log_faults' \in Nat /\ log_faults' # 0
  BY <1>0 DEF Log!Recover, Log!MayFail
<1>2. CASE Log!Reopen(fs)
  <2> PICK gs : gs = Log!WithCurrent(fs)
    OBVIOUS
  <2>1. Sound(gs, log_last) /\ Log!Lines(gs) = Log!Lines(fs) /\ 0 \in DOMAIN gs
    BY <1>0, OpenedAgain
  <2>2. log_files' = gs /\ log_size' = Len(gs[0])
    BY <1>2 DEF Log!Reopen
  <2>3. OlderGone(log_kept' \ log_cleared', gs)
    BY <2>1 DEF OlderGone
  <2> QED BY <1>0, <1>1, <2>1, <2>2, <2>3 DEF LogFiles, LogCounts, Sound, OlderGone
<1>3. CASE log_files' = fs /\ log_usable' = FALSE
  BY <1>0, <1>1, <1>3 DEF LogFiles, LogCounts, Sound, OlderGone
<1> QED BY <1>2, <1>3 DEF Log!Recover

LEMMA NextFile ==
  ASSUME NEW m \in Nat, NEW i \in Nat \ {0}, NEW n \in Nat, NEW a \in Nat
  PROVE  /\ n - m - (i - 1) * m + a = n - 0 - i * m + a
         /\ i = 1 => n - m + a = n - 0 - i * m + a
<1>1. i * m = (i - 1) * m + m
  OBVIOUS
<1>2. (i - 1) * m \in Nat
  OBVIOUS
<1> QED BY <1>1, <1>2

LEMMA EmptiedByRotation ==
  ASSUME LogLimits, LogFiles, log_usable
  PROVE  /\ 0 \notin DOMAIN Log!Shifted(log_backups + 1)
         /\ DOMAIN Log!WithCurrent(Log!Shifted(log_backups + 1)) =
              {0} \cup {j \in 1..log_backups : j - 1 \in DOMAIN log_files}
         /\ Log!WithCurrent(Log!Shifted(log_backups + 1))[0] = << >>
         /\ \A i \in 1..log_backups : i - 1 \in DOMAIN log_files =>
              Log!WithCurrent(Log!Shifted(log_backups + 1))[i] = log_files[i - 1]
<1> PICK fs : fs = Log!Shifted(log_backups + 1)
  OBVIOUS
<1> PICK k : k = log_backups + 1
  OBVIOUS
<1>0. log_backups \in Nat /\ k # 0
  BY DEF LogLimits
<1>1. /\ DOMAIN fs = {j \in 0..log_backups :
                        j # log_backups + 1 - k /\ From(k, j) \in DOMAIN log_files}
      /\ \A i \in DOMAIN fs : fs[i] = log_files[From(k, i)]
  BY <1>0, ShiftedFiles
<1>2. \A j \in 1..log_backups : From(k, j) = j - 1
  BY <1>0 DEF From
<1>3. /\ DOMAIN fs = {j \in 1..log_backups : j - 1 \in DOMAIN log_files}
      /\ \A i \in DOMAIN fs : fs[i] = log_files[i - 1]
  <2>1. \A j : (j \in 0..log_backups /\ j # log_backups + 1 - k) <=> j \in 1..log_backups
    BY <1>0
  <2>2. DOMAIN fs = {j \in 1..log_backups : From(k, j) \in DOMAIN log_files}
    BY <1>1, <2>1
  <2>3. DOMAIN fs = {j \in 1..log_backups : j - 1 \in DOMAIN log_files}
    BY <1>2, <2>2
  <2>4. ASSUME NEW i \in DOMAIN fs PROVE fs[i] = log_files[i - 1]
    BY <1>1, <1>2, <2>3
  <2> QED BY <2>3, <2>4
<1>4. 0 \notin DOMAIN fs
  BY <1>3
<1>5. /\ DOMAIN Log!WithCurrent(fs) = DOMAIN fs \cup {0}
      /\ Log!WithCurrent(fs)[0] = << >>
      /\ \A i \in DOMAIN fs : Log!WithCurrent(fs)[i] = fs[i]
  BY <1>4 DEF Log!WithCurrent
<1> QED BY <1>3, <1>4, <1>5

LEMMA ReadyFiles ==
  ASSUME LogLimits, LogFiles, log_usable
  PROVE  /\ Sound(Log!Ready, log_last) /\ 0 \in DOMAIN Log!Ready
         /\ Len(Log!Ready[0]) = IF Log!MustRotate THEN 0 ELSE log_size
         /\ OlderGone(log_kept \ log_cleared, Log!Ready)
<1> PICK fs : fs = Log!Shifted(log_backups + 1)
  OBVIOUS
<1>1. CASE Log!MustRotate
  <2>0. log_backups + 1 \in Log!Steps /\ log_last \in Nat
    BY DEF LogLimits, Log!Steps, LogFiles, LogCounts
  <2>1. Sound(fs, log_last) /\ OlderGone(log_kept \ log_cleared, fs)
    BY <2>0, ShiftedSound, RotationTakesTheOldest
  <2>2. /\ Sound(Log!WithCurrent(fs), log_last)
        /\ Log!Lines(Log!WithCurrent(fs)) = Log!Lines(fs) /\ 0 \in DOMAIN Log!WithCurrent(fs)
    BY <2>0, <2>1, OpenedAgain
  <2>3. Log!WithCurrent(fs)[0] = << >>
    BY EmptiedByRotation
  <2>4. Log!Ready = Log!WithCurrent(fs)
    BY <1>1 DEF Log!Ready
  <2> QED BY <1>1, <2>1, <2>2, <2>3, <2>4 DEF OlderGone
<1>2. CASE ~Log!MustRotate
  <2>1. Log!Ready = log_files
    BY <1>2 DEF Log!Ready
  <2> QED BY <1>2, <2>1 DEF LogFiles, LogCounts
<1> QED BY <1>1, <1>2

LEMMA ReadyInSequence ==
  ASSUME LogLimits, LogFiles, InSequence
  PROVE  /\ Consecutive(Log!Ready, log_last) /\ Len(Log!Ready[0]) < log_lines_max
         /\ FarBehind(log_kept \ log_cleared, Log!Ready)
<1>0. /\ log_backups \in Nat /\ log_lines_max \in Nat \ {0} /\ log_last \in Nat
      /\ 0 \in DOMAIN log_files /\ log_size = Len(log_files[0]) /\ log_usable
      /\ log_files[0] \in Seq(1..log_last) /\ DOMAIN log_files \subseteq 0..log_backups
  BY DEF LogLimits, LogFiles, LogCounts, InSequence, Sound
<1>1. Len(log_files[0]) \in Nat
  BY <1>0, LenProperties
<1>2. CASE ~Log!MustRotate
  <2>1. Log!Ready = log_files
    BY <1>2 DEF Log!Ready
  <2>2. Len(log_files[0]) < log_lines_max
    BY <1>0, <1>1, <1>2 DEF Log!MustRotate
  <2> QED BY <2>1, <2>2 DEF InSequence
<1>3. CASE Log!MustRotate
  <2> PICK gs : gs = Log!WithCurrent(Log!Shifted(log_backups + 1))
    OBVIOUS
  <2>0. Log!Ready = gs
    BY <1>3 DEF Log!Ready
  <2>1. Len(log_files[0]) = log_lines_max
    BY <1>0, <1>1, <1>3 DEF Log!MustRotate, InSequence, Consecutive
  <2>2. /\ DOMAIN gs = {0} \cup {j \in 1..log_backups : j - 1 \in DOMAIN log_files}
        /\ gs[0] = << >>
        /\ \A i \in 1..log_backups : i - 1 \in DOMAIN log_files => gs[i] = log_files[i - 1]
    BY <1>0, EmptiedByRotation
  <2>3. ASSUME NEW i \in DOMAIN gs \ {0}
        PROVE  /\ Len(gs[i]) = log_lines_max
               /\ \A a \in 1..log_lines_max :
                    gs[i][a] = log_last - Len(gs[0]) - i * log_lines_max + a
    <3>1. i \in Nat \ {0} /\ i - 1 \in DOMAIN log_files /\ gs[i] = log_files[i - 1] /\ Len(gs[0]) = 0
      BY <2>2, <2>3
    <3>2. PICK m : m = i - 1
      OBVIOUS
    <3>3. CASE m = 0
      <4>1. i = 1 /\ gs[i] = log_files[0]
        BY <3>1, <3>2, <3>3
      <4>2. \A a \in 1..log_lines_max : log_files[0][a] = log_last - log_lines_max + a
        BY <2>1 DEF InSequence, Consecutive
      <4>3. \A a \in 1..log_lines_max :
              log_last - log_lines_max + a = log_last - 0 - i * log_lines_max + a
        BY <1>0, <4>1
      <4> QED BY <2>1, <3>1, <4>1, <4>2, <4>3
    <3>4. CASE m # 0
      <4>1. m \in DOMAIN log_files \ {0} /\ gs[i] = log_files[m]
        BY <3>1, <3>2, <3>4
      <4>2. /\ Len(log_files[m]) = log_lines_max
            /\ \A a \in 1..log_lines_max :
                 log_files[m][a] = log_last - log_lines_max - m * log_lines_max + a
        BY <2>1, <4>1 DEF InSequence, Consecutive
      <4>3. \A a \in 1..log_lines_max :
              log_last - log_lines_max - m * log_lines_max + a
                = log_last - 0 - i * log_lines_max + a
        BY <1>0, <3>1, <3>2, NextFile
      <4> QED BY <3>1, <4>1, <4>2, <4>3
    <3> QED BY <3>3, <3>4
  <2>4. Consecutive(gs, log_last)
    <3>1. 0 \in DOMAIN gs /\ Len(gs[0]) = 0
      BY <2>2
    <3> QED BY <1>0, <2>3, <3>1 DEF Consecutive
  <2>5. FarBehind(log_kept \ log_cleared, gs)
    <3> SUFFICES ASSUME NEW e \in (log_kept \ log_cleared) \ Log!Lines(gs)
                 PROVE  e + log_backups * log_lines_max <= log_last
      BY DEF FarBehind
    <3>1. CASE e \notin Log!Lines(log_files)
      BY <3>1 DEF InSequence, FarBehind
    <3>2. CASE e \in Log!Lines(log_files)
      <4>1. Sound(Log!Shifted(log_backups + 1), log_last) /\ log_backups + 1 \in Log!Steps
        BY <1>0, ShiftedSound DEF Log!Steps
      <4>2. Log!Lines(gs) = Log!Lines(Log!Shifted(log_backups + 1))
        BY <1>0, <4>1, OpenedAgain
      <4>3. /\ log_backups \in DOMAIN log_files
            /\ \E a \in DOMAIN log_files[log_backups] : e = log_files[log_backups][a]
        BY <3>2, <4>1, <4>2, ShiftedSound
      <4>4. PICK a \in DOMAIN log_files[log_backups] : e = log_files[log_backups][a]
        BY <4>3
      <4>5. CASE log_backups = 0
        <5>1. a \in 1..log_lines_max
          BY <1>0, <2>1, <4>4, <4>5, LenProperties
        <5>2. e = log_last - log_lines_max + a
          BY <2>1, <4>4, <4>5, <5>1 DEF InSequence, Consecutive
        <5> QED BY <1>0, <4>5, <5>1, <5>2
      <4>6. CASE log_backups # 0
        <5>1. log_backups \in DOMAIN log_files \ {0} /\ log_files[log_backups] \in Seq(1..log_last)
          BY <4>3, <4>6 DEF LogFiles, Sound
        <5>2. Len(log_files[log_backups]) = log_lines_max
          BY <5>1 DEF InSequence, Consecutive
        <5>3. a \in 1..log_lines_max
          BY <4>4, <5>1, <5>2, LenProperties
        <5>4. e = log_last - log_lines_max - log_backups * log_lines_max + a
          BY <2>1, <4>4, <5>1, <5>3 DEF InSequence, Consecutive
        <5>5. PICK m : m = log_backups * log_lines_max
          OBVIOUS
        <5>6. m \in Nat
          BY <1>0, <5>5
        <5> QED BY <1>0, <5>3, <5>4, <5>5, <5>6
      <4> QED BY <4>5, <4>6
    <3> QED BY <3>1, <3>2
  <2>6. Len(gs[0]) < log_lines_max
    BY <1>0, <2>2
  <2> QED BY <2>0, <2>4, <2>5, <2>6
<1> QED BY <1>2, <1>3

IsFunction(f) == f = [i \in DOMAIN f |-> f[i]]
Added(gs, hs, e) ==
  /\ IsFunction(hs) /\ DOMAIN hs = DOMAIN gs /\ hs[0] = Append(gs[0], e)
  /\ \A i \in DOMAIN gs \ {0} : hs[i] = gs[i]

\* One event more at the end of the current file.
LEMMA EventIsAdded ==
  ASSUME LogLimits, NEW gs, NEW n \in Nat, Sound(gs, n), 0 \in DOMAIN gs, NEW hs,
         Added(gs, hs, n + 1)
  PROVE  /\ Sound(hs, n + 1) /\ Log!Lines(hs) = Log!Lines(gs) \cup {n + 1}
         /\ Len(gs[0]) \in Nat /\ Len(hs[0]) = Len(gs[0]) + 1
         /\ \A a \in 1..Len(gs[0]) : hs[0][a] = gs[0][a]
         /\ hs[0][Len(hs[0])] = n + 1
<1> PICK m : m = Len(gs[0])
  OBVIOUS
<1>0. gs[0] \in Seq(1..n) /\ m \in Nat /\ gs = [i \in DOMAIN gs |-> gs[i]]
      /\ \A i \in DOMAIN gs : gs[i] \in Seq(1..n)
  BY LenProperties DEF Sound
<1>1. /\ DOMAIN hs = DOMAIN gs /\ hs[0] = Append(gs[0], n + 1)
      /\ \A i \in DOMAIN gs \ {0} : hs[i] = gs[i]
  BY DEF Added
<1>2. /\ gs[0] \in Seq(1..(n + 1)) /\ hs[0] \in Seq(1..(n + 1))
      /\ Len(hs[0]) = m + 1 /\ DOMAIN hs[0] = 1..(m + 1) /\ DOMAIN gs[0] = 1..m
      /\ \A a \in 1..m : hs[0][a] = gs[0][a]
      /\ hs[0][m + 1] = n + 1
  <2>1. gs[0] \in Seq(1..(n + 1)) /\ n + 1 \in 1..(n + 1)
    BY <1>0
  <2> QED BY <1>0, <1>1, <2>1, AppendProperties, LenProperties
<1>3. ASSUME NEW i \in DOMAIN hs PROVE hs[i] \in Seq(1..(n + 1))
  <2>1. CASE i = 0
    BY <1>2, <2>1
  <2>2. CASE i # 0
    <3>1. hs[i] \in Seq(1..n)
      BY <1>0, <1>1, <2>2
    <3> QED BY <1>0, <3>1
  <2> QED BY <2>1, <2>2
<1>4. \A i \in DOMAIN gs : \A a \in DOMAIN gs[i] : gs[i][a] \in 1..n
  BY <1>0, ElementOfSeq, LenProperties
<1>5. ASSUME NEW i \in DOMAIN hs, NEW a \in DOMAIN hs[i]
      PROVE  \/ i = 0 /\ a = m + 1 /\ hs[i][a] = n + 1
             \/ /\ i \in DOMAIN gs /\ a \in DOMAIN gs[i] /\ hs[i][a] = gs[i][a]
                /\ hs[i][a] \in 1..n
                /\ i = 0 => a \in 1..m
  <2>1. CASE i = 0 /\ a = m + 1
    BY <1>2, <2>1
  <2>2. CASE i = 0 /\ a # m + 1
    <3>1. a \in 1..m
      BY <1>0, <1>2, <2>2
    <3> QED BY <1>1, <1>2, <1>4, <2>2, <3>1
  <2>3. CASE i # 0
    BY <1>1, <1>4, <2>3
  <2> QED BY <2>1, <2>2, <2>3
<1>6. ASSUME NEW i \in DOMAIN hs, NEW j \in DOMAIN hs,
             NEW a \in DOMAIN hs[i], NEW b \in DOMAIN hs[j], i > j \/ (i = j /\ a < b)
      PROVE  hs[i][a] < hs[j][b]
  <2>0. DOMAIN hs \subseteq Nat
    BY <1>1 DEF Sound, LogLimits
  <2>1. CASE i = 0 /\ a = m + 1
    <3>1. j = 0 /\ b \in 1..(m + 1)
      BY <1>2, <1>6, <2>0, <2>1
    <3> QED BY <1>0, <1>6, <2>1, <3>1
  <2>2. CASE /\ i \in DOMAIN gs /\ a \in DOMAIN gs[i] /\ hs[i][a] = gs[i][a]
             /\ hs[i][a] \in 1..n
    <3>1. CASE hs[j][b] = n + 1
      BY <2>2, <3>1
    <3>2. CASE j \in DOMAIN gs /\ b \in DOMAIN gs[j] /\ hs[j][b] = gs[j][b]
      <4>1. gs[i][a] < gs[j][b]
        BY <1>6, <2>2, <3>2 DEF Sound
      <4> QED BY <2>2, <3>2, <4>1
    <3>3. \/ hs[j][b] = n + 1
          \/ j \in DOMAIN gs /\ b \in DOMAIN gs[j] /\ hs[j][b] = gs[j][b]
      BY <1>5
    <3> QED BY <3>1, <3>2, <3>3
  <2> QED BY <1>5, <2>1, <2>2
<1>7. Log!Lines(hs) = Log!Lines(gs) \cup {n + 1}
  <2>1. ASSUME NEW e \in Log!Lines(hs) PROVE e \in Log!Lines(gs) \cup {n + 1}
    <3>1. PICK i \in DOMAIN hs : \E a \in DOMAIN hs[i] : e = hs[i][a]
      BY <2>1, LinesOf
    <3>2. PICK a \in DOMAIN hs[i] : e = hs[i][a]
      BY <3>1
    <3> QED BY <1>5, <3>2, LinesOf
  <2>2. ASSUME NEW e \in Log!Lines(gs) PROVE e \in Log!Lines(hs)
    <3>1. PICK i \in DOMAIN gs : \E a \in DOMAIN gs[i] : e = gs[i][a]
      BY <2>2, LinesOf
    <3>2. PICK a \in DOMAIN gs[i] : e = gs[i][a]
      BY <3>1
    <3>3. i \in DOMAIN hs /\ a \in DOMAIN hs[i] /\ hs[i][a] = gs[i][a]
      <4>1. CASE i = 0
        <5>1. a \in 1..m /\ a \in 1..(m + 1)
          BY <1>0, <1>2, <3>2, <4>1
        <5> QED BY <1>1, <1>2, <4>1, <5>1
      <4>2. CASE i # 0
        BY <1>1, <3>2, <4>2
      <4> QED BY <4>1, <4>2
    <3> QED BY <3>2, <3>3, LinesOf
  <2>3. n + 1 \in Log!Lines(hs)
    <3>1. 0 \in DOMAIN hs /\ m + 1 \in DOMAIN hs[0] /\ n + 1 = hs[0][m + 1]
      BY <1>0, <1>1, <1>2
    <3> QED BY <3>1, LinesOf
  <2> QED BY <2>1, <2>2, <2>3
<1>8. DOMAIN hs \subseteq 0..log_backups
  BY <1>1 DEF Sound
<1>9. Sound(hs, n + 1)
  BY <1>3, <1>6, <1>8 DEF Sound, Added, IsFunction
<1> QED BY <1>0, <1>1, <1>2, <1>7, <1>9

LEMMA LinesAreNumbers ==
  ASSUME NEW fs, NEW n \in Nat, Sound(fs, n)
  PROVE  Log!Lines(fs) \subseteq 1..n
<1> SUFFICES ASSUME NEW e \in Log!Lines(fs) PROVE e \in 1..n
  OBVIOUS
<1>1. PICK i \in DOMAIN fs : \E a \in DOMAIN fs[i] : e = fs[i][a]
  BY LinesOf
<1>2. fs[i] \in Seq(1..n)
  BY DEF Sound
<1> QED BY <1>1, <1>2, ElementOfSeq, LenProperties

LEMMA PersistStep ==
  ASSUME LogLimits, LogFiles, Log!Persist
  PROVE  /\ log_last' \in Nat /\ log_kept' \subseteq 1..log_last'
         /\ log_usable' => 0 \in DOMAIN log_files' /\ log_size' = Len(log_files'[0])
         /\ Sound(log_files', log_last')
         /\ OlderGone(log_kept' \ log_cleared', log_files')
         /\ InSequence => InSequence'
<1>g. PICK gs : gs = Log!Ready
  OBVIOUS
<1>n. PICK n : n = log_last
  OBVIOUS
<1>h. PICK hs : hs = log_files'
  OBVIOUS
<1>0. /\ n \in Nat /\ log_usable /\ log_last' = n + 1 /\ log_usable' /\ log_cleared' = log_cleared
      /\ log_kept' = log_kept \cup {n + 1} /\ log_kept \subseteq 1..n
      /\ hs = [gs EXCEPT ![0] = Append(@, n + 1)]
      /\ log_size' = (IF Log!MustRotate THEN 0 ELSE log_size) + 1
  BY <1>g, <1>n, <1>h DEF Log!Persist, LogFiles, LogCounts
<1>1. /\ Sound(gs, n) /\ 0 \in DOMAIN gs
      /\ Len(gs[0]) = IF Log!MustRotate THEN 0 ELSE log_size
      /\ OlderGone(log_kept \ log_cleared, gs)
  BY <1>0, <1>g, <1>n, ReadyFiles
<1>a. /\ IsFunction(hs) /\ DOMAIN hs = DOMAIN gs /\ hs[0] = Append(gs[0], n + 1)
      /\ \A i \in DOMAIN gs \ {0} : hs[i] = gs[i]
  BY <1>0, <1>1 DEF IsFunction
<1>2. /\ Sound(hs, n + 1) /\ Log!Lines(hs) = Log!Lines(gs) \cup {n + 1}
      /\ Len(gs[0]) \in Nat /\ Len(hs[0]) = Len(gs[0]) + 1
      /\ \A a \in 1..Len(gs[0]) : hs[0][a] = gs[0][a]
      /\ hs[0][Len(hs[0])] = n + 1
  <2>1. Added(gs, hs, n + 1)
    BY <1>a DEF Added
  <2>2. n \in Nat
    BY <1>0
  <2> QED BY <1>1, <2>1, <2>2, EventIsAdded
<1>3. OlderGone(log_kept' \ log_cleared', hs)
  <2> SUFFICES ASSUME NEW e \in (log_kept' \ log_cleared') \ Log!Lines(hs),
                      NEW d \in Log!Lines(hs)
               PROVE  e < d
    BY DEF OlderGone
  <2>1. e \in (log_kept \ log_cleared) \ Log!Lines(gs) /\ e \in 1..n
    BY <1>0, <1>2
  <2>2. CASE d \in Log!Lines(gs)
    BY <1>1, <2>1, <2>2 DEF OlderGone
  <2>3. CASE d = n + 1
    BY <1>0, <2>1, <2>3
  <2> QED BY <1>2, <2>2, <2>3
<1>4. ASSUME InSequence PROVE InSequence'
  <2>m. PICK m : m = Len(gs[0])
    OBVIOUS
  <2>0. log_lines_max \in Nat \ {0} /\ log_backups \in Nat /\ m \in Nat
    BY <1>2, <2>m DEF LogLimits
  <2>1. /\ Consecutive(gs, n) /\ m < log_lines_max
        /\ FarBehind(log_kept \ log_cleared, gs)
    BY <1>4, <1>g, <1>n, <2>m, ReadyInSequence
  <2>k. PICK k : k = n + 1
    OBVIOUS
  <2>l. k \in Nat /\ n \in Nat /\ Len(hs[0]) = m + 1
    BY <1>0, <1>2, <2>k, <2>m
  <2>2. Consecutive(hs, k)
    <3>1. ASSUME NEW a \in 1..(m + 1) PROVE hs[0][a] = k - (m + 1) + a
      <4>1. CASE a \in 1..m
        <5>1. hs[0][a] = n - m + a
          BY <1>2, <2>1, <2>m, <4>1 DEF Consecutive
        <5>2. m \in Nat /\ a \in Nat /\ n - m + a = k - (m + 1) + a
          BY <2>0, <2>k, <2>l, <4>1
        <5> QED BY <5>1, <5>2
      <4>2. CASE a = m + 1
        <5>1. hs[0][m + 1] = n + 1
          BY <1>2, <2>l
        <5>2. k - (m + 1) + (m + 1) = n + 1
          BY <2>0, <2>k, <2>l
        <5> QED BY <4>2, <5>1, <5>2
      <4> QED BY <2>0, <4>1, <4>2
    <3>2. ASSUME NEW i \in DOMAIN hs \ {0}
          PROVE  /\ Len(hs[i]) = log_lines_max
                 /\ \A a \in 1..log_lines_max :
                      hs[i][a] = k - (m + 1) - i * log_lines_max + a
      <4>1. i \in DOMAIN gs \ {0} /\ hs[i] = gs[i] /\ i \in Nat
        BY <1>1, <1>a, <2>0 DEF Sound
      <4>2. /\ Len(gs[i]) = log_lines_max
            /\ \A a \in 1..log_lines_max : gs[i][a] = n - m - i * log_lines_max + a
        BY <2>1, <2>m, <4>1 DEF Consecutive
      <4>3. PICK x : x = i * log_lines_max
        OBVIOUS
      <4>4. x \in Nat
        BY <2>0, <4>1, <4>3
      <4>5. \A a \in 1..log_lines_max : n - m - x + a = k - (m + 1) - x + a
        BY <2>0, <2>k, <2>l, <4>4
      <4>6. \A a \in 1..log_lines_max : hs[i][a] = n - m - x + a
        BY <4>1, <4>2, <4>3
      <4>7. \A a \in 1..log_lines_max : hs[i][a] = k - (m + 1) - x + a
        BY <4>5, <4>6
      <4> QED BY <4>1, <4>2, <4>3, <4>7
    <3>3. 0 \in DOMAIN hs /\ Len(hs[0]) <= log_lines_max
      BY <1>1, <1>a, <2>0, <2>1, <2>l
    <3>4. \A a \in 1..Len(hs[0]) : hs[0][a] = k - Len(hs[0]) + a
      BY <2>l, <3>1
    <3>5. \A i \in DOMAIN hs \ {0} :
            /\ Len(hs[i]) = log_lines_max
            /\ \A a \in 1..log_lines_max :
                 hs[i][a] = k - Len(hs[0]) - i * log_lines_max + a
      BY <2>l, <3>2
    <3> QED BY <3>3, <3>4, <3>5, Zenon DEF Consecutive
  <2>3. FarBehind(log_kept \ log_cleared, log_files)'
    <3> SUFFICES ASSUME NEW e \in (log_kept' \ log_cleared') \ Log!Lines(hs)
                 PROVE  e + log_backups * log_lines_max <= n + 1
      BY <1>0, <1>h DEF FarBehind
    <3>1. e \in (log_kept \ log_cleared) \ Log!Lines(gs) /\ e \in 1..n
      BY <1>0, <1>2
    <3>2. PICK x : x = log_backups * log_lines_max
      OBVIOUS
    <3>3. x \in Nat /\ e + x <= n
      BY <1>n, <2>0, <2>1, <3>1, <3>2 DEF FarBehind
    <3> QED BY <1>0, <3>1, <3>2, <3>3
  <2> QED BY <1>0, <1>h, <2>k, <2>2, <2>3 DEF InSequence, Consecutive
<1>5. log_size' = Len(hs[0])
  BY <1>0, <1>1, <1>2
<1>6. log_kept' \subseteq 1..(n + 1) /\ n + 1 \in Nat
  BY <1>0
<1>7. 0 \in DOMAIN hs
  BY <1>1, <1>a
<1> QED BY <1>0, <1>h, <1>2, <1>3, <1>4, <1>5, <1>6, <1>7

LEMMA FilesStayInOrder ==
  ASSUME LogLimits
  PROVE  LogFiles /\ [Log!Next]_Log!vars => LogFiles'
<1> SUFFICES ASSUME LogFiles, [Log!Next]_Log!vars PROVE LogFiles'
  OBVIOUS
<1>0. /\ log_last \in Nat /\ log_faults \in Nat /\ log_kept \subseteq 1..log_last
      /\ Sound(log_files, log_last) /\ OlderGone(log_kept \ log_cleared, log_files)
      /\ log_backups \in Nat /\ LogCounts
  BY DEF LogFiles, LogCounts, LogLimits
<1>1. CASE UNCHANGED <<Log!logVars, log_faults>>
  BY <1>1 DEF LogFiles, LogCounts, Sound, OlderGone, InSequence, Consecutive, FarBehind,
              Log!logVars, Log!Lines
<1>2. ASSUME NEW r \in log_readers,
             \/ Log!Subscribe(r) \/ Log!Receive(r) \/ Log!Unsubscribe(r)
             \/ Log!Offer(r) \/ Log!Drop(r) \/ Log!Retry(r)
      PROVE  LogFiles'
  <2>1. UNCHANGED <<Log!logVars, log_faults>>
    BY <1>2 DEF Log!Subscribe, Log!Receive, Log!Unsubscribe, Log!Offer, Log!Drop, Log!Retry
  <2> QED BY <1>1, <2>1
<1>3. CASE Log!Write
  <2>1. Log!Persist /\ log_faults' = log_faults
    BY <1>3 DEF Log!Write
  <2> QED BY <1>0, <2>1, PersistStep DEF LogFiles, LogCounts
<1>4. CASE Log!WriteHalf
  <2>1. Log!Persist /\ log_faults' = log_faults + 1
    BY <1>4 DEF Log!WriteHalf, Log!MayFail
  <2>2. log_faults' \in Nat /\ log_faults' # 0
    BY <1>0, <2>1
  <2> QED BY <2>1, <2>2, PersistStep DEF LogFiles, LogCounts
<1>5. CASE Log!WriteFails
  <2>1. /\ log_usable /\ UNCHANGED <<log_usable, log_last, log_kept, log_cleared>>
        /\ log_files' = Log!Ready /\ log_size' = (IF Log!MustRotate THEN 0 ELSE log_size)
        /\ log_faults' = log_faults + 1
    BY <1>5 DEF Log!WriteFails, Log!MayFail
  <2>2. log_faults' \in Nat /\ log_faults' # 0
    BY <1>0, <2>1
  <2>3. /\ Sound(Log!Ready, log_last) /\ 0 \in DOMAIN Log!Ready
        /\ Len(Log!Ready[0]) = IF Log!MustRotate THEN 0 ELSE log_size
        /\ OlderGone(log_kept \ log_cleared, Log!Ready)
    BY <2>1, ReadyFiles
  <2>4. Sound(log_files', log_last') /\ OlderGone(log_kept' \ log_cleared', log_files')
    BY <2>1, <2>3
  <2> QED BY <1>0, <2>1, <2>2, <2>3, <2>4 DEF LogFiles, LogCounts
<1>6. CASE Log!Clear
  <2>g. PICK fs : fs = log_files'
    OBVIOUS
  <2>n. PICK n : n = log_last + 1
    OBVIOUS
  <2>1. /\ log_usable /\ log_usable' = log_usable /\ log_last' = n /\ log_size' = 1
        /\ fs = [i \in {0} |-> <<n>>] /\ log_kept' = log_kept \cup {n}
        /\ log_cleared' = log_cleared \cup Log!Lines(log_files) /\ log_faults' = log_faults
    BY <1>6, <2>g, <2>n DEF Log!Clear
  <2>2. n \in Nat /\ n >= 1 /\ n = log_last + 1 /\ n \in 1..n
    BY <1>0, <2>n
  <2>3. DOMAIN fs = {0} /\ fs[0] = <<n>> /\ fs = [i \in DOMAIN fs |-> fs[i]]
    BY <2>1
  <2>4. <<n>> \in Seq(1..n) /\ Len(<<n>>) = 1 /\ DOMAIN <<n>> = {1} /\ <<n>>[1] = n
    BY <2>2
  <2>5. Sound(fs, n)
    <3>1. DOMAIN fs \subseteq 0..log_backups /\ \A i \in DOMAIN fs : fs[i] \in Seq(1..n)
      <4>1. DOMAIN fs \subseteq 0..log_backups
        BY <1>0, <2>3
      <4>2. \A i \in DOMAIN fs : fs[i] = <<n>>
        BY <2>3
      <4>3. <<n>> \in Seq(1..n)
        BY <2>4
      <4> QED BY <4>1, <4>2, <4>3
    <3>2. ASSUME NEW i \in DOMAIN fs, NEW j \in DOMAIN fs, NEW a \in DOMAIN fs[i],
                 NEW b \in DOMAIN fs[j], i > j \/ (i = j /\ a < b)
          PROVE  FALSE
      <4>1. i = 0 /\ j = 0 /\ a = 1 /\ b = 1
        BY <2>3, <2>4
      <4> QED BY <3>2, <4>1
    <3> QED BY <2>3, <3>1, <3>2 DEF Sound
  <2>6. Log!Lines(fs) = {n}
    <3>1. ASSUME NEW e PROVE e \in Log!Lines(fs) <=> e = n
      <4>1. (\E i \in DOMAIN fs : \E a \in DOMAIN fs[i] : e = fs[i][a]) <=> e = n
        BY <2>3, <2>4
      <4> QED BY <4>1, LinesOf
    <3> QED BY <3>1
  <2>7. ASSUME NEW e \in (log_kept' \ log_cleared') \ Log!Lines(fs)
        PROVE  e \in (log_kept \ log_cleared) \ Log!Lines(log_files) /\ e < n
    BY <1>0, <2>1, <2>2, <2>6
  <2>8. OlderGone(log_kept' \ log_cleared', fs)
    BY <2>6, <2>7 DEF OlderGone
  <2>9. ASSUME InSequence PROVE InSequence'
    <3>1. Consecutive(fs, n)
      <4>1. log_lines_max \in Nat /\ 1 <= log_lines_max
        BY DEF LogLimits
      <4> QED BY <2>2, <2>3, <2>4, <4>1 DEF Consecutive
    <3>2. FarBehind(log_kept \ log_cleared, log_files)'
      <4> SUFFICES ASSUME NEW e \in (log_kept' \ log_cleared') \ Log!Lines(fs)
                   PROVE  e + log_backups * log_lines_max <= n
        BY <2>g, <2>1 DEF FarBehind
      <4>1. PICK x : x = log_backups * log_lines_max
        OBVIOUS
      <4>2. x \in Nat
        BY <1>0, <4>1 DEF LogLimits
      <4>3. e \in (log_kept \ log_cleared) \ Log!Lines(log_files)
        BY <2>7
      <4>4. e \in Nat
        BY <1>0, <4>3
      <4>5. e + x <= log_last
        BY <2>9, <4>1, <4>3 DEF InSequence, FarBehind
      <4> QED BY <1>0, <2>2, <4>1, <4>2, <4>4, <4>5
    <3> QED BY <2>g, <2>1, <2>9, <3>1, <3>2 DEF InSequence, Consecutive
  <2>10. log_kept' \subseteq 1..n
    BY <1>0, <2>1, <2>2
  <2> QED BY <1>0, <2>g, <2>1, <2>2, <2>3, <2>4, <2>5, <2>8, <2>9, <2>10 DEF LogFiles, LogCounts
<1>7. ASSUME NEW k \in Log!Steps, Log!RotateFails(k) PROVE LogFiles'
  <2>1. Log!Recover(Log!Shifted(k)) /\ UNCHANGED <<log_last, log_kept>> /\ log_cleared' = log_cleared
    BY <1>7 DEF Log!RotateFails
  <2>2. /\ Sound(Log!Shifted(k), log_last)
        /\ OlderGone(log_kept \ log_cleared', Log!Shifted(k))
    BY <2>1, ShiftedSound, RotationTakesTheOldest
  <2> QED BY <1>0, <2>1, <2>2, LogRecovers
<1>8. ASSUME NEW k \in Log!Steps, Log!ClearFails(k) PROVE LogFiles'
  <2>g. PICK fs : fs = [i \in {j \in DOMAIN log_files : j >= k} |-> log_files[i]]
    OBVIOUS
  <2>1. /\ Log!Recover(fs) /\ UNCHANGED <<log_last, log_kept>>
        /\ log_cleared' = log_cleared \cup (Log!Lines(log_files) \ Log!Lines(fs))
    BY <1>8, <2>g DEF Log!ClearFails
  <2>2. /\ DOMAIN fs \subseteq DOMAIN log_files /\ \A i \in DOMAIN fs : fs[i] = log_files[i]
        /\ fs = [i \in DOMAIN fs |-> fs[i]]
    BY <2>g
  <2>3. Sound(fs, log_last)
    <3>1. ASSUME NEW i \in DOMAIN fs, NEW j \in DOMAIN fs,
                 NEW a \in DOMAIN fs[i], NEW b \in DOMAIN fs[j], i > j \/ (i = j /\ a < b)
          PROVE  fs[i][a] < fs[j][b]
      <4>1. /\ i \in DOMAIN log_files /\ j \in DOMAIN log_files
            /\ fs[i] = log_files[i] /\ fs[j] = log_files[j]
        BY <2>2
      <4> QED BY <1>0, <3>1, <4>1 DEF Sound
    <3> QED BY <1>0, <2>2, <3>1 DEF Sound
  <2>4. Log!Lines(fs) \subseteq Log!Lines(log_files)
    BY <2>2, LinesOf
  <2>5. OlderGone(log_kept \ log_cleared', fs)
    BY <1>0, <2>1, <2>4 DEF OlderGone
  <2> QED BY <1>0, <2>1, <2>3, <2>5, LogRecovers
<1>9. ASSUME NEW k \in Log!Steps, Log!Restart(k) PROVE LogFiles'
  <2>1. /\ Log!MayFail(1) /\ Log!Reopen(Log!Shifted(k)) /\ UNCHANGED <<log_last, log_kept>>
        /\ log_cleared' = log_cleared
    BY <1>9 DEF Log!Restart
  <2>2. /\ Sound(Log!Shifted(k), log_last)
        /\ OlderGone(log_kept \ log_cleared', Log!Shifted(k))
    BY <2>1, ShiftedSound, RotationTakesTheOldest
  <2>3. Log!Recover(Log!Shifted(k))
    BY <2>1 DEF Log!Recover
  <2> QED BY <1>0, <2>1, <2>2, <2>3, LogRecovers
<1> QED BY <1>1, <1>2, <1>3, <1>4, <1>5, <1>6, <1>7, <1>8, <1>9
     DEF Log!Next, Log!vars, Log!logVars

LEMMA FilesBeginInOrder ==
  ASSUME LogLimits
  PROVE  Log!Init => LogFiles
<1> SUFFICES ASSUME Log!Init PROVE LogFiles
  OBVIOUS
<1>g. PICK fs : fs = log_files
  OBVIOUS
<1>1. /\ fs = [i \in {0} |-> << >>] /\ log_usable = TRUE /\ log_size = 0 /\ log_last = 0
      /\ log_kept = {} /\ log_faults = 0
  BY <1>g DEF Log!Init
<1>2. /\ DOMAIN fs = {0} /\ fs[0] = << >> /\ fs = [i \in DOMAIN fs |-> fs[i]]
      /\ DOMAIN << >> = {} /\ Len(<< >>) = 0 /\ << >> \in Seq(1..0)
  BY <1>1
<1>3. Sound(fs, 0)
  <2>1. DOMAIN fs \subseteq 0..log_backups
    BY <1>2 DEF LogLimits
  <2>2. \A i \in DOMAIN fs : fs[i] = << >> /\ fs[i] \in Seq(1..0) /\ DOMAIN fs[i] = {}
    BY <1>2
  <2> QED BY <1>2, <2>1, <2>2 DEF Sound
<1>4. Consecutive(fs, 0)
  BY <1>2 DEF Consecutive, LogLimits
<1>5. FarBehind(log_kept \ log_cleared, fs) /\ OlderGone(log_kept \ log_cleared, fs)
  BY <1>1 DEF FarBehind, OlderGone
<1> QED BY <1>g, <1>1, <1>2, <1>3, <1>4, <1>5 DEF LogFiles, LogCounts, InSequence

\* OnlyTheOldestGo (EventLog) holds in every reachable state: an event that
\* reached a file and is in none was cleared or is older than all that are
\* left; the files, from the oldest to the current one, are in order; and until
\* something fails they hold at least the last Backups * MaxLines events.
\* Hypothesis: at least one line fits into a file.
THEOREM OldestGoFirst == Log!Spec => []OnlyTheOldestGo
<1>. LogLimits
  BY LogAssumption
<1>1. LogFiles => Log!OnlyTheOldestGo
  <2> SUFFICES ASSUME LogFiles PROVE Log!OnlyTheOldestGo
    OBVIOUS
  <2>1. ASSUME NEW e \in (log_kept \ log_cleared) \ Log!Lines(log_files)
        PROVE  /\ \A d \in Log!Lines(log_files) : e < d
               /\ log_faults = 0 => e + log_backups * log_lines_max <= log_last
    BY DEF LogFiles, OlderGone, InSequence, FarBehind
  <2>2. \A i, j \in DOMAIN log_files :
          \A a \in DOMAIN log_files[i], b \in DOMAIN log_files[j] :
            (i > j \/ (i = j /\ a < b)) => log_files[i][a] < log_files[j][b]
    BY DEF LogFiles, Sound
  <2> QED BY <2>1, <2>2 DEF Log!OnlyTheOldestGo
<1> QED BY <1>1, FilesBeginInOrder, FilesStayInOrder, PTL DEF Log!Spec, OnlyTheOldestGo

=============================================================================
