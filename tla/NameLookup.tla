---------------------------- MODULE NameLookup ----------------------------
(***************************************************************************)
(* The DNS64 resolver (internal/dns64/resolver.go) and the replacement of  *)
(* its servers by an administrator (OperationsCoordinator.UpdateResolvers, *)
(* ConfigStore.SaveResolvers).                                             *)
(*                                                                         *)
(* A client resolves a name by looking up its AAAA record and, when that   *)
(* gives no usable address, its A record.  A lookup reads the clock, the   *)
(* cache and the servers under the read lock, joins or leads the query in  *)
(* flight, and asks the servers one after the other without any lock.      *)
(*                                                                         *)
(* An answer is what the destination policy makes of it: an allowed        *)
(* address, only blocked ones, or none.  Time is discrete; an entry counts *)
(* the ticks it has left, a lookup the ticks since it read the clock.      *)
(*                                                                         *)
(* Not here: a configuration document that changes the settings writes the *)
(* whole file from its snapshot (ConfigStore.Replace), with the list of    *)
(* servers as it was then (ReplaceSettings of AgentApply).                 *)
(***************************************************************************)
EXTENDS Integers, FiniteSets, Sequences

CONSTANTS
  Clients,     \* connections and probes that resolve names
  Names,       \* host names
  Prefix,      \* whether a healthy NAT64 prefix is passed to Resolve
  Servers,     \* the lists of enabled servers an administrator may save
  MinTTL,      \* minimumTTL and negativeTTL
  MaxTTL,      \* maximumTTL
  TTLs,        \* the lifetimes servers announce
  CacheMax,    \* cacheMaxEntries
  MaxAge,      \* bound of the model on the ticks one query takes
  MaxUpdates   \* bound of the model on the number of updates

VARIABLES
  servers,   \* Resolver.endpoints
  cache,     \* Resolver.cache: key -> [answer, left, stale]
  lookups,   \* what each client is doing
  op,        \* the update in progress (OperationsCoordinator.mu)
  settings,  \* OperationsCoordinator.resolvers
  file,      \* the list in the configuration file and in ConfigStore
  updates    \* how many updates began

vars == <<servers, cache, lookups, op, settings, file, updates>>

Keys == Names \X {"AAAA", "A"}
Answers == {"allowed", "blocked", "empty"}

\* stale counts the ticks, plus one, since the servers that were read were replaced.
Current == 0
Older(stale) == IF stale = Current \/ stale > MaxTTL THEN stale ELSE stale + 1
Replaced(stale) == IF stale = Current THEN 1 ELSE stale

Idle == [at |-> "idle"]
NoOp == [at |-> "idle"]

\* clampTTL, and the lifetime of an answer without addresses.
Lifetime(answer, ttl) ==
  IF answer = "empty" \/ ttl < MinTTL THEN MinTTL ELSE IF ttl > MaxTTL THEN MaxTTL ELSE ttl

Init ==
  /\ file \in Servers
  /\ servers = file /\ settings = file
  /\ cache = << >>
  /\ lookups = [c \in Clients |-> Idle]
  /\ op = NoOp
  /\ updates = 0

-----------------------------------------------------------------------------
(***************************************************************************)
(* Lookups.                                                                *)
(***************************************************************************)
\* A cached answer that has not expired.
Known(key) == key \in DOMAIN cache /\ cache[key].left > 0

\* What a client does with an answer: it is done, or looks up the A record next.
After(call, answer) ==
  IF call.key[2] = "AAAA" /\ answer # "allowed" /\ (answer = "empty" \/ Prefix)
    THEN [at |-> "next", key |-> <<call.key[1], "A">>]
    ELSE Idle

\* lookup up to the unlock: a hit, or a miss with a copy of the servers.
Looked(call) ==
  IF Known(call.key) THEN After(call, cache[call.key].answer)
  ELSE [at |-> "missed", key |-> call.key,
        rest |-> servers, age |-> 0, stale |-> Current]

\* Resolve of a name that is not a literal address.
Resolve(c, name) ==
  /\ lookups[c] = Idle
  /\ lookups' = [lookups EXCEPT ![c] = Looked([key |-> <<name, "AAAA">>])]
  /\ UNCHANGED <<servers, cache, op, settings, file, updates>>

\* Resolve goes on to the A record.
ResolveA(c) ==
  /\ lookups[c].at = "next"
  /\ lookups' = [lookups EXCEPT ![c] = Looked(@)]
  /\ UNCHANGED <<servers, cache, op, settings, file, updates>>

\* Resolver.inFlight
InFlight(key) == {c \in Clients : lookups[c].at = "asking" /\ lookups[c].key = key}

\* A follower waits for the call of its leader.
Waiting(call, leader) ==
  [at |-> "waiting", key |-> call.key, on |-> leader]

\* beginLookup
Begin(c) ==
  /\ lookups[c].at = "missed"
  /\ lookups' = [lookups EXCEPT ![c] =
       IF InFlight(@.key) = {} THEN [@ EXCEPT !.at = "asking"]
       ELSE Waiting(@, CHOOSE d \in InFlight(@.key) : TRUE)]
  /\ UNCHANGED <<servers, cache, op, settings, file, updates>>

\* The clients of c's call: its followers and c itself.
Callers(c) == {c} \cup {d \in Clients : lookups[d].at = "waiting" /\ lookups[d].on = c}

\* The call of c is done.  Those of quit, whose contexts have ended, may return an error.
Told(c, quit, answer) ==
  [d \in Clients |-> IF d \notin Callers(c) THEN lookups[d]
                     ELSE IF d \in quit \/ answer = "failed" THEN Idle ELSE After(lookups[d], answer)]

\* A server answers with an error, does not answer, or the leader's context has ended.
AskFails(c) ==
  LET call == lookups[c] IN
  /\ call.at = "asking"
  /\ call.rest # << >>
  /\ lookups' = [lookups EXCEPT ![c].rest = Tail(@)]
  /\ UNCHANGED <<servers, cache, op, settings, file, updates>>

\* Mutant: a call whose servers all failed tells its own client only.
NoAnswerForOne(c) ==
  /\ lookups[c].at = "asking"
  /\ lookups[c].rest = << >>
  /\ lookups' = [lookups EXCEPT ![c] = Idle]
  /\ UNCHANGED <<servers, cache, op, settings, file, updates>>

\* All servers failed.
NoAnswer(c) ==
  /\ lookups[c].at = "asking"
  /\ lookups[c].rest = << >>
  /\ lookups' = Told(c, {}, "failed")
  /\ UNCHANGED <<servers, cache, op, settings, file, updates>>

\* The entries that evictLocked leaves: first it drops the ones that had expired when the
\* lookup began, then the ones that expire soonest, and never the one just stored.
Evictions(stored, keep, age) ==
  LET dead == {k \in DOMAIN stored \ {keep} : stored[k].left + age <= 0}
      rest == DOMAIN stored \ dead
  IN IF Cardinality(DOMAIN stored) <= CacheMax THEN {DOMAIN stored}
     ELSE IF Cardinality(rest) <= CacheMax THEN {rest}
     ELSE {K \in SUBSET rest :
             /\ keep \in K /\ Cardinality(K) = CacheMax
             /\ \A k \in K \ {keep}, v \in rest \ K : stored[v].left <= stored[k].left}

\* Mutant: the lifetime starts when the answer arrives.
EntryFromAnswer(call, answer, ttl) ==
  [answer |-> answer, left |-> Lifetime(answer, ttl), stale |-> call.stale]

\* The lifetime starts when the lookup read the clock.
Entry(call, answer, ttl) ==
  [answer |-> answer, left |-> Lifetime(answer, ttl) - call.age, stale |-> call.stale]

Put(f, key, value) == [x \in DOMAIN f \cup {key} |-> IF x = key THEN value ELSE f[x]]

\* The next server answers: the answer is stored and everybody who waits gets it.
Answer(c, answer, ttl) ==
  LET call == lookups[c]
      stored == Put(cache, call.key, Entry(call, answer, ttl)) IN
  /\ call.at = "asking"
  /\ call.rest # << >>
  /\ \E K \in Evictions(stored, call.key, call.age) : cache' = [k \in K |-> stored[k]]
  /\ \E quit \in SUBSET Callers(c) : lookups' = Told(c, quit, answer)
  /\ UNCHANGED <<servers, op, settings, file, updates>>

\* The context of a follower ends: it stops waiting.
GiveUp(c) ==
  /\ lookups[c].at = "waiting"
  /\ lookups' = [lookups EXCEPT ![c] = Idle]
  /\ UNCHANGED <<servers, cache, op, settings, file, updates>>

Asks(call) == call.at \in {"missed", "asking"}

Tick ==
  /\ \A c \in Clients : Asks(lookups[c]) => lookups[c].age < MaxAge
  /\ cache' = [k \in DOMAIN cache |->
       [cache[k] EXCEPT !.left = IF @ > -MaxAge THEN @ - 1 ELSE @, !.stale = Older(@)]]
  /\ lookups' = [c \in Clients |->
       IF Asks(lookups[c]) THEN [lookups[c] EXCEPT !.age = @ + 1, !.stale = Older(@)]
                           ELSE lookups[c]]
  /\ UNCHANGED <<servers, op, settings, file, updates>>

-----------------------------------------------------------------------------
(***************************************************************************)
(* The administrator replaces the servers.                                 *)
(***************************************************************************)
\* UpdateEndpoints: lookups on their way keep the servers they copied.
Replace(list) ==
  /\ servers' = list
  /\ cache' = << >>
  /\ lookups' = [c \in Clients |->
       IF Asks(lookups[c]) THEN [lookups[c] EXCEPT !.stale = Replaced(@)] ELSE lookups[c]]

UpdateResolvers(list) ==
  /\ op = NoOp
  /\ updates < MaxUpdates
  /\ updates' = updates + 1
  /\ op' = [at |-> "saving", list |-> list, before |-> servers]
  /\ Replace(list)
  /\ UNCHANGED <<settings, file>>

SaveResolvers ==
  /\ op.at = "saving"
  /\ file' = op.list
  /\ settings' = op.list
  /\ op' = NoOp
  /\ UNCHANGED <<servers, cache, lookups, updates>>

SaveFails ==
  /\ op.at = "saving"
  /\ Replace(op.before)
  /\ op' = NoOp
  /\ UNCHANGED <<settings, file, updates>>

\* The process ends at any point; the next one reads the file.
Restart ==
  /\ servers' = file /\ settings' = file
  /\ cache' = << >>
  /\ lookups' = [c \in Clients |-> Idle]
  /\ op' = NoOp
  /\ UNCHANGED <<file, updates>>

-----------------------------------------------------------------------------
Step(c) ==
  \/ ResolveA(c)
  \/ Begin(c)
  \/ AskFails(c)
  \/ NoAnswer(c)
  \/ \E answer \in Answers, ttl \in TTLs : Answer(c, answer, ttl)

Next ==
  \/ \E c \in Clients, name \in Names : Resolve(c, name)
  \/ \E c \in Clients : Step(c)
  \/ \E c \in Clients : GiveUp(c)
  \/ Tick
  \/ \E list \in Servers : UpdateResolvers(list)
  \/ SaveResolvers
  \/ SaveFails
  \/ Restart

\* A goroutine that can run runs, and a query fails by its timeout if not before.
Fairness == \A c \in Clients : WF_vars(Step(c))

Spec == Init /\ [][Next]_vars /\ Fairness

-----------------------------------------------------------------------------
\* Answers come from the servers that were configured: between two updates the resolver asks
\* the servers that the settings page shows and the next process reads from the file, also
\* after a save that failed; and an answer from servers that were replaced, which a lookup that
\* began before stores after the cache was cleared, is used for maximumTTL after the
\* replacement at most (resolver.go:188, 203, 242, operations_service.go:253).  (What the file
\* holds is what updates put there: not while a document, which replaces the whole file, is
\* applied beside them.)
AnswersAreCurrent ==
  /\ op = NoOp => servers = file /\ settings = file
  /\ \A k \in DOMAIN cache :
       cache[k].stale # Current => cache[k].left + (cache[k].stale - 1) <= MaxTTL

\* Every lookup ends, also for the followers of a call whose leader failed
\* (resolver.go:198-214).
LookupsEnd == \A c \in Clients : lookups[c] # Idle ~> lookups[c] = Idle

=============================================================================
