------------------------------- MODULE Keyspace -------------------------------
(***************************************************************************)
(* The names of Redis keys (redis_keys.py).  A key is the sequence of its  *)
(* segments, the parts between the colons; what a caller passes (an agent, *)
(* a domain, an id) is one segment: it has no colon in it.  A table gives  *)
(* for each name of redis_keys.py the key it stands for, x and y being its *)
(* arguments.                                                              *)
(***************************************************************************)
EXTENDS Sequences, TLC

CONSTANT Fleet  \* Keyspace.org_id of the fleet's keyspace, None in the code

PREFIX == "cortex"
FLEET_ORG_ID == "personal"

\* Keyspace.__init__: no org id, an empty one and the fleet's own id, in any
\* spelling, stand for the fleet.  normalized is the id stripped and lowered.
OrgId(normalized) == IF normalized \in {Fleet, "", FLEET_ORG_ID} THEN Fleet ELSE normalized

\* Defect: one namespace for all.
ScopedGlobally(org, suffix) == <<PREFIX>> \o suffix

\* Keyspace._scoped
Scoped(org, suffix) ==
  IF org = Fleet THEN <<PREFIX>> \o suffix ELSE <<PREFIX, org>> \o suffix

\* Defect: the prefix of the fleet for everyone.
PlainStream(org, stream) == <<PREFIX>> \o stream

\* RedisStreamBus._full_stream, with the prefix BusConfig takes from the keyspace.
StreamPrefix(org) == IF org = Fleet THEN <<PREFIX>> ELSE <<PREFIX, org>>
FullStream(org, stream) == StreamPrefix(org) \o stream

-----------------------------------------------------------------------------
(* The methods of a Keyspace: what they pass to _scoped.                   *)

MeshSuffixes(x, y) ==
  [mesh_prefix |-> <<"mesh">>, mesh_skill_prefix |-> <<"mesh", "skill">>,
   mesh_typed_prefix |-> <<"mesh", "typed">>,
   mesh_sync_results_stream |-> <<"mesh", "sync", "results">>,
   mesh_key |-> <<"mesh", x>>, mesh_skill_key |-> <<"mesh", "skill", x>>,
   mesh_typed_key |-> <<"mesh", "typed", x, y>>,
   mesh_sync_stream |-> <<"mesh", "sync", x>>]

TaskSuffixes(x) ==
  [tasks_domain_stream |-> <<"tasks", x>>, tasks_agent_stream |-> <<"tasks", "agent", x>>,
   results_stream |-> <<"results">>, events_stream |-> <<"events">>]

ThreadSuffixes(x) ==
  [responded_prefix |-> <<"responded">>, responded_key |-> <<"responded", x>>,
   thread_agent_key |-> <<"thread", "agent", x>>,
   workspace_thread_prefix |-> <<"workspace", "thread">>,
   workspace_thread_key |-> <<"workspace", "thread", x>>,
   workspace_branch_key |-> <<"workspace", "branch", x>>,
   domain_recent_key |-> <<"domain", x, "recent">>, session_prefix |-> <<"session">>,
   outcomes_stream |-> <<"outcomes">>,
   outcome_collector_cursor |-> <<"outcome-collector", "cursor">>]

PlanSuffixes(x) ==
  [plans_prefix |-> <<"plans">>, plans_all_set |-> <<"plans", "all">>,
   plans_active_set |-> <<"plans", "active">>, plan_key |-> <<"plans", x>>,
   plan_status_key |-> <<"plans", x, "status">>,
   plan_decision_key |-> <<"plans", "decision", x>>]

ScheduleSuffixes(x) ==
  [schedule_prefix |-> <<"schedule">>,
   schedule_config_changed |-> <<"schedule", "config_changed">>,
   scheduler_liveness_key |-> <<"schedule", "liveness">>,
   scheduler_leader_lease_key |-> <<"schedule", "leader_lease">>,
   workflow_cron_prefix |-> <<"workflow", "cron", x>>]

OrgSuffixes(x, y) ==
  MeshSuffixes(x, y) @@ TaskSuffixes(x) @@ ThreadSuffixes(x) @@ PlanSuffixes(x)
  @@ ScheduleSuffixes(x)

-----------------------------------------------------------------------------
(* The module-level names, which are the fleet's.                          *)

GlobalMesh(x, y) ==
  [mesh_prefix |-> <<PREFIX, "mesh">>, mesh_skill_prefix |-> <<PREFIX, "mesh", "skill">>,
   mesh_typed_prefix |-> <<PREFIX, "mesh", "typed">>,
   mesh_sync_prefix |-> <<PREFIX, "mesh", "sync">>,
   mesh_sync_results_stream |-> <<PREFIX, "mesh", "sync", "results">>,
   mesh_sync_stream |-> <<PREFIX, "mesh", "sync", x>>, mesh_key |-> <<PREFIX, "mesh", x>>,
   mesh_skill_key |-> <<PREFIX, "mesh", "skill", x>>,
   mesh_typed_key |-> <<PREFIX, "mesh", "typed", x, y>>]

GlobalTasks(x) ==
  [tasks_prefix |-> <<PREFIX, "tasks">>, tasks_agent_prefix |-> <<PREFIX, "tasks", "agent">>,
   results_stream |-> <<PREFIX, "results">>, events_stream |-> <<PREFIX, "events">>,
   tasks_domain_stream |-> <<PREFIX, "tasks", x>>,
   tasks_agent_stream |-> <<PREFIX, "tasks", "agent", x>>,
   heartbeat_stream |-> <<PREFIX, "heartbeat">>,
   agent_hash_prefix |-> <<PREFIX, "agent">>, agent_hash |-> <<PREFIX, "agent", x>>]

GlobalThreads(x) ==
  [responded_prefix |-> <<PREFIX, "responded">>, responded_key |-> <<PREFIX, "responded", x>>,
   session_prefix |-> <<PREFIX, "session">>, domain_prefix |-> <<PREFIX, "domain">>,
   domain_recent_key |-> <<PREFIX, "domain", x, "recent">>,
   workspace_thread_prefix |-> <<PREFIX, "workspace", "thread">>,
   workspace_branch_prefix |-> <<PREFIX, "workspace", "branch">>,
   workspace_thread_key |-> <<PREFIX, "workspace", "thread", x>>,
   workspace_branch_key |-> <<PREFIX, "workspace", "branch", x>>,
   thread_agent_prefix |-> <<PREFIX, "thread", "agent">>,
   thread_agent_key |-> <<PREFIX, "thread", "agent", x>>]

GlobalControl(x) ==
  [approval_prefix |-> <<PREFIX, "approval">>, vault_prefix |-> <<PREFIX, "vault">>,
   vault_lock_key |-> <<PREFIX, "vault", "lock">>, vault_secret_key |-> <<PREFIX, "vault", x>>,
   config_prefix |-> <<PREFIX, "config">>,
   light_llm_config_key |-> <<PREFIX, "config", "light_llm_provider">>,
   agent_runtime_config_prefix |-> <<PREFIX, "config", "agent">>,
   agent_runtime_config_key |-> <<PREFIX, "config", "agent", x>>,
   schedule_prefix |-> <<PREFIX, "schedule">>,
   schedule_config_changed |-> <<PREFIX, "schedule", "config_changed">>,
   scheduler_liveness_key |-> <<PREFIX, "schedule", "liveness">>,
   scheduler_leader_lease_key |-> <<PREFIX, "schedule", "leader_lease">>,
   fleet_update_prefix |-> <<PREFIX, "fleet", "update">>,
   fleet_results_stream |-> <<PREFIX, "fleet", "update", "results">>,
   fleet_update_stream |-> <<PREFIX, "fleet", "update", x>>]

GlobalRecords(x, y) ==
  [outcomes_stream |-> <<PREFIX, "outcomes">>,
   outcome_collector_cursor |-> <<PREFIX, "outcome-collector", "cursor">>,
   idle_dispatch_prefix |-> <<PREFIX, "idle-dispatch">>,
   ci_reserved_prefix |-> <<PREFIX, "ci-reserved">>,
   ci_reserved_key |-> <<PREFIX, "ci-reserved", x>>,
   plans_prefix |-> <<PREFIX, "plans">>, plans_all_set |-> <<PREFIX, "plans", "all">>,
   plans_active_set |-> <<PREFIX, "plans", "active">>, plan_key |-> <<PREFIX, "plans", x>>,
   plan_status_key |-> <<PREFIX, "plans", x, "status">>,
   tenant_prefix |-> <<PREFIX, "tenant">>,
   tenant_user_key |-> <<PREFIX, "tenant", x, "users", y>>,
   tenant_admins_key |-> <<PREFIX, "tenant", x, "admins">>]

Globals(x, y) ==
  GlobalMesh(x, y) @@ GlobalTasks(x) @@ GlobalThreads(x) @@ GlobalControl(x)
  @@ GlobalRecords(x, y)

\* A Keyspace of the fleet yields the module-level names (the docstring of
\* Keyspace).
FleetIsGlobal(segments) ==
  \A x, y \in segments : \A name \in DOMAIN OrgSuffixes(x, y) \cap DOMAIN Globals(x, y) :
    Scoped(Fleet, OrgSuffixes(x, y)[name]) = Globals(x, y)[name]

=============================================================================
