------------------------------ MODULE Services ------------------------------
(***************************************************************************)
(* Services of the process that share no state with each other, each an    *)
(* instance of its module over variables and constants of its own: the     *)
(* resolver, its connections, the NAT64 monitor, the event log, the        *)
(* redacted credentials and the administrator's session.  Their properties *)
(* are checked by the runs of MCServices and proved in ServicesProofs.     *)
(***************************************************************************)
EXTENDS Integers, FiniteSets

(***************************************************************************)
(* The resolver and its cache (dns64/resolver.go).                         *)
(***************************************************************************)
CONSTANTS lk_clients, lk_names, lk_prefix, lk_lists, lk_min, lk_max, lk_ttls, lk_entries_max,
          lk_age_bound, lk_updates_bound
VARIABLES lk_servers, lk_cache, lk_lookups, lk_op, lk_settings, lk_file, lk_updates

Lookup == INSTANCE NameLookup WITH
  Clients <- lk_clients, Names <- lk_names, Prefix <- lk_prefix, Servers <- lk_lists,
  MinTTL <- lk_min, MaxTTL <- lk_max, TTLs <- lk_ttls, CacheMax <- lk_entries_max,
  MaxAge <- lk_age_bound, MaxUpdates <- lk_updates_bound,
  servers <- lk_servers, cache <- lk_cache, lookups <- lk_lookups, op <- lk_op,
  settings <- lk_settings, file <- lk_file, updates <- lk_updates

\* Lifetimes are durations; the shortest is not longer than the longest (30 s, 10 min).
Lifetimes ==
  /\ lk_min \in Nat /\ lk_max \in Nat /\ lk_min <= lk_max
  /\ lk_ttls \subseteq Nat /\ lk_age_bound \in Nat
ASSUME LookupAssumption == Lifetimes

\* Answers come from the servers that updates configured; those of replaced ones end.
AnswersAreCurrent == Lookup!AnswersAreCurrent

(***************************************************************************)
(* The monitor of the NAT64 prefix (dns64/monitor.go).                     *)
(***************************************************************************)
CONSTANTS nat_prefixes, nat_none, nat_changes_bound
VARIABLES nat_manual, nat_status, nat_check, nat_op, nat_file, nat_changes

Nat64 == INSTANCE Nat64Monitor WITH
  Prefixes <- nat_prefixes, None <- nat_none, MaxChanges <- nat_changes_bound,
  manual <- nat_manual, status <- nat_status, check <- nat_check, op <- nat_op,
  file <- nat_file, changes <- nat_changes

\* The published status is about the manual prefix, which is the one that changes of it saved.
ManualIsInForce == Nat64!ManualIsInForce

(***************************************************************************)
(* The connections to a DNS server (dns64/dot.go).                         *)
(***************************************************************************)
CONSTANTS dot_queries, dot_conns, dot_kept_bound
VARIABLES dot_open, dot_idle, dot_closed, dot_query

Dot == INSTANCE DotPool WITH
  Queries <- dot_queries, Conns <- dot_conns, MaxIdle <- dot_kept_bound,
  open <- dot_open, idle <- dot_idle, closed <- dot_closed, query <- dot_query

\* An open connection is kept or used by exactly one query.
EachHasOneOwner == Dot!EachHasOneOwner

(***************************************************************************)
(* The event log, its rotation and its streams (eventlog/logger.go).       *)
(***************************************************************************)
CONSTANTS log_backups, log_lines_max, log_buffer, log_readers, log_events_bound, log_faults_bound
VARIABLES log_files, log_usable, log_size, log_last, log_kept, log_cleared, log_published, log_open,
          log_queue, log_seen, log_step, log_lagged, log_faults

Log == INSTANCE EventLog WITH
  Backups <- log_backups, MaxLines <- log_lines_max, Buffer <- log_buffer,
  Readers <- log_readers, MaxEvents <- log_events_bound, MaxFaults <- log_faults_bound,
  files <- log_files, usable <- log_usable, size <- log_size, last <- log_last,
  kept <- log_kept, cleared <- log_cleared, published <- log_published, open <- log_open,
  queue <- log_queue, seen <- log_seen, step <- log_step, lagged <- log_lagged,
  faults <- log_faults

\* New wants a positive size and no negative number of backups; a channel holds 64 events.
LogLimits ==
  /\ log_backups \in Nat /\ log_lines_max \in Nat \ {0} /\ log_buffer \in Nat \ {0}
ASSUME LogAssumption == LogLimits

\* No event is lost between others, whatever fails in a rotation.
OnlyTheOldestGo == Log!OnlyTheOldestGo

\* The channel of a stream holds the newest events without a gap, whenever its reader takes one.
StreamIsNewest == Log!StreamIsNewest

(***************************************************************************)
(* The redacted credentials of the nodes (app/node_secrets.go).            *)
(***************************************************************************)
CONSTANTS sec_callers, sec_nodes, sec_credentials, sec_open, sec_gone, sec_changes_bound
VARIABLES sec_carried, sec_saved, sec_count, sec_call, sec_changes, sec_crossed, sec_unsettled

Secrets == INSTANCE NodeSecrets WITH
  Callers <- sec_callers, Nodes <- sec_nodes, Credentials <- sec_credentials,
  Open <- sec_open, Gone <- sec_gone, MaxChanges <- sec_changes_bound,
  carried <- sec_carried, saved <- sec_saved, count <- sec_count, call <- sec_call,
  changes <- sec_changes, crossed <- sec_crossed, unsettled <- sec_unsettled

\* An open listener and a node that is gone have no credential.
SecretsAreApart ==
  IsFiniteSet(sec_nodes) /\ sec_open \notin sec_credentials /\ sec_gone \notin sec_credentials
ASSUME SecretsAssumption == SecretsAreApart

\* Each credential is counted once for each node that has it.
CountsAreExact == Secrets!CountsAreExact

(***************************************************************************)
(* The administrator's session (auth/session.go, admin/password.go).       *)
(***************************************************************************)
CONSTANTS adm_browsers, adm_console, adm_none, adm_saves_bound, adm_logins_bound
VARIABLES adm_saved, adm_up, adm_session, adm_made, adm_cookie, adm_request, adm_changing

Access == INSTANCE AdminAccess WITH
  Browsers <- adm_browsers, Console <- adm_console, None <- adm_none,
  MaxSaves <- adm_saves_bound, MaxLogins <- adm_logins_bound,
  saved <- adm_saved, up <- adm_up, session <- adm_session, made <- adm_made,
  cookie <- adm_cookie, request <- adm_request, changing <- adm_changing

\* No session is nobody's.
ASSUME AccessAssumption == adm_none \notin adm_browsers \cup {adm_console}

\* No session outlives the password that was replaced.
NoneOutlivesItsPassword == Access!NoneOutlivesItsPassword
=============================================================================
