------------------------------ MODULE Secrets ------------------------------
(***************************************************************************)
(* Server.secrets: a copy of the secrets at chisel_secret_location, which  *)
(* the user edits.  Two kinds of tasks renew it with update_secrets        *)
(* (server.rs): refresh_secrets, periodically and with a backoff after     *)
(* failures, and every `apply' when its version is routed.  update_secrets *)
(* awaits the read and then stores what it read: updates may overlap.      *)
(***************************************************************************)
EXTENDS Naturals

CONSTANTS
  Applier,      \* apply calls
  MaxEdit,    \* how often the user edits the secrets
  MaxFail,    \* how often reading valid secrets fails
  OnlyOnce,   \* --refresh-secrets-only-once
  Period, Factor, MaxDelay, \* polling period, backoff factor, longest backoff
  Refresh     \* the refresh_secrets task

ASSUME SecretsAssumption ==
  /\ MaxEdit \in Nat /\ MaxFail \in Nat /\ OnlyOnce \in BOOLEAN
  /\ Period \in Nat \ {0} /\ Factor \in Nat \ {0} /\ MaxDelay \in Nat \ {0}
  /\ Refresh \notin Applier

Updater == Applier \cup {Refresh}

VARIABLES
  source,   \* the secrets as edited: a number, and whether they can be parsed
  secrets,  \* the number of the secrets the server has
  task,     \* state of each updater, and what it has read
  failed,   \* last_try_was_failure
  delay,    \* delay_s
  nfail

secretsVars == <<source, secrets, task, failed, delay, nfail>>

Sleeping == [pc |-> "idle", read |-> 0]

\* make_server has read the secrets; if that failed the server has none.
SecretsInit ==
  /\ source \in [n : {0}, ok : BOOLEAN]
  /\ secrets = 0
  /\ task = [u \in Updater |-> Sleeping]
  /\ failed = FALSE
  /\ delay = Period
  /\ nfail = 0

\* The user writes new secrets, perhaps malformed.
edit ==
  /\ source.n < MaxEdit
  /\ source' \in [n : {source.n + 1}, ok : BOOLEAN]
  /\ UNCHANGED <<secrets, task, failed, delay, nfail>>

\* update_secrets: get_secrets returns the secrets ...
get_secrets(u) ==
  /\ task[u].pc = "idle" /\ source.ok
  /\ task' = [task EXCEPT ![u] = [pc |-> "read", read |-> source.n]]
  /\ UNCHANGED <<source, secrets, failed, delay, nfail>>

\* ... or an error.
get_secrets_err(u) ==
  /\ task[u].pc = "idle"
  /\ \/ ~source.ok /\ UNCHANGED nfail
     \/ source.ok /\ nfail < MaxFail /\ nfail' = nfail + 1
  /\ task' = [task EXCEPT ![u].pc = "error"]
  /\ UNCHANGED <<source, secrets, failed, delay>>

\* (Mutant: the delay is not reset.)
refresh_stays_slow ==
  /\ task[Refresh].pc = "read"
  /\ secrets' = task[Refresh].read
  /\ failed'  = FALSE
  /\ task'    = [task EXCEPT ![Refresh] =
                   IF OnlyOnce THEN [Sleeping EXCEPT !.pc = "ended"] ELSE Sleeping]
  /\ UNCHANGED <<source, delay, nfail>>

\* (Mutant: what was read is not stored.)
refresh_not_stored ==
  /\ task[Refresh].pc = "read"
  /\ failed'  = FALSE
  /\ delay'   = Period
  /\ task'    = [task EXCEPT ![Refresh] =
                   IF OnlyOnce THEN [Sleeping EXCEPT !.pc = "ended"] ELSE Sleeping]
  /\ UNCHANGED <<source, secrets, nfail>>

\* refresh_secrets: a successful round, and the next one after the usual period.
refresh_ok ==
  /\ task[Refresh].pc = "read"
  /\ secrets' = task[Refresh].read
  /\ failed'  = FALSE
  /\ delay'   = Period
  /\ task'    = [task EXCEPT ![Refresh] =
                   IF OnlyOnce THEN [Sleeping EXCEPT !.pc = "ended"] ELSE Sleeping]
  /\ UNCHANGED <<source, nfail>>

Backoff == IF delay * Factor < MaxDelay THEN delay * Factor ELSE MaxDelay

\* refresh_secrets: a failed round.
refresh_err ==
  /\ task[Refresh].pc = "error"
  /\ failed' = TRUE
  /\ delay'  = Backoff
  /\ task'   = [task EXCEPT ![Refresh] = Sleeping]
  /\ UNCHANGED <<source, secrets, nfail>>

\* apply: the version is routed and the secrets are up to date, so the call
\* returns; an error is ignored.
apply_ok(a) ==
  /\ task[a].pc = "read"
  /\ secrets' = task[a].read
  /\ task'    = [task EXCEPT ![a] = [Sleeping EXCEPT !.pc = "ended"]]
  /\ UNCHANGED <<source, failed, delay, nfail>>

apply_err(a) ==
  /\ task[a].pc = "error"
  /\ task' = [task EXCEPT ![a] = [Sleeping EXCEPT !.pc = "ended"]]
  /\ UNCHANGED <<source, secrets, failed, delay, nfail>>

SecretsNext ==
  \/ edit \/ refresh_ok \/ refresh_err
  \/ \E u \in Updater : get_secrets(u) \/ get_secrets_err(u)
  \/ \E a \in Applier : apply_ok(a) \/ apply_err(a)

\* The sleep of refresh_secrets ends, and a read returns.
RefreshStep == get_secrets(Refresh) \/ get_secrets_err(Refresh) \/ refresh_ok \/ refresh_err

SecretsFairness == /\ WF_secretsVars(RefreshStep)
                   /\ \A a \in Applier : WF_secretsVars(apply_ok(a) \/ apply_err(a))

SecretsSpec == SecretsInit /\ [][SecretsNext]_secretsVars /\ SecretsFairness

-----------------------------------------------------------------------------
(* Properties.                                                             *)

\* server.rs 270-291: also, the polling is slowed down only while reading fails, and
\* never beyond the longest delay.
SecretsTypeOK ==
  /\ source \in [n : 0 .. MaxEdit, ok : BOOLEAN]
  /\ secrets \in 0 .. MaxEdit
  /\ task \in [Updater -> [pc : {"idle", "read", "error", "ended"}, read : 0 .. MaxEdit]]
  /\ failed \in BOOLEAN
  /\ delay \in IF failed THEN 1 .. MaxDelay ELSE {Period}
  /\ nfail \in 0 .. MaxFail

\* server.rs 38: the server gets every edit that stays, however the updates of
\* refresh_secrets and of the applies overlap.
SecretsConverge ==
  \A n \in 0 .. MaxEdit :
    source = [n |-> n, ok |-> TRUE] ~> secrets = n \/ source.n # n

=============================================================================
