----------------------------- MODULE ModelRegistry -----------------------------
(***************************************************************************)
(* node/model_registry.py and its use by node/server.py: one shard manager   *)
(* per model, next to the manager of the primary model that the server       *)
(* loads for itself.  A load checks the registry before it waits for the     *)
(* executor and writes it afterwards, so loads of one model overlap and the   *)
(* last to end stays; an unload does not stop them, and a worker goes on with  *)
(* the manager it has looked up.                                            *)
(***************************************************************************)
EXTENDS Naturals, Sequences

CONSTANTS
    Model,        \* the names of the models, and their sha256 on the chain
    Primary,      \* config.model_name
    Supported,    \* config.supported_models
    Worker,       \* the coroutines of _job_worker
    MaxManagers   \* bound: managers made for the registry

VARIABLES
    ready,        \* start is past load_all
    registry,     \* _registry
    names,        \* the values of _id_to_name
    loading,      \* managers in shard_manager.load
    created,      \* managers made for the registry
    serving       \* the job's model and the manager each worker has

registryVars == <<ready, registry, names, loading, created, serving>>

\* self.shard_mgr, which is loaded before the registry's.
Legacy == [number |-> 0, model |-> Primary]
Waiting == [job |-> Primary, by |-> Legacy, busy |-> FALSE]

ModelsToLoad == IF Supported = <<>> THEN <<Primary>> ELSE Supported

\* load_all: every load has passed its check before the first waits to be woken.
RegistryInit ==
    /\ ready = FALSE
    /\ registry = [m \in {} |-> Legacy]
    /\ names = {}
    /\ loading = {[number |-> i, model |-> ModelsToLoad[i]] : i \in 1 .. Len(ModelsToLoad)}
    /\ created = Len(ModelsToLoad)
    /\ serving = [w \in Worker |-> Waiting]

Load(m) ==
    /\ ready /\ created < MaxManagers
    /\ m \notin DOMAIN registry
    /\ created' = created + 1
    /\ loading' = loading \union {[number |-> created + 1, model |-> m]}
    /\ UNCHANGED <<ready, registry, names, serving>>

Enter(s) ==
    /\ registry' = [m \in DOMAIN registry \union {s.model} |-> IF m = s.model THEN s ELSE registry[m]]
    /\ names' = names \union {s.model}

LoadEnds(s) ==
    /\ s \in loading
    /\ loading' = loading \ {s}
    /\ Enter(s)
    /\ ready' = (ready \/ loading' = {})
    /\ UNCHANGED <<created, serving>>

\* Before the node is ready a failure leaves start, and nothing is served.
LoadFails(s) ==
    /\ ready /\ s \in loading
    /\ loading' = loading \ {s}
    /\ UNCHANGED <<ready, registry, names, created, serving>>

\* A shard manager has no shutdown to wait for.
Unload(m) ==
    /\ ready /\ m \in DOMAIN registry
    /\ registry' = [x \in DOMAIN registry \ {m} |-> registry[x]]
    /\ names' = names \ {m}
    /\ UNCHANGED <<ready, loading, created, serving>>

-----------------------------------------------------------------------------
\* get_by_model_id(job.model_id) or self.shard_mgr.
ManagerFor(m) == IF m \in names /\ m \in DOMAIN registry THEN registry[m] ELSE Legacy

PolledAll_Bad(m) == TRUE

\* The loop polls for one model: jobs for the others of a node are left to other nodes.
Polled(m) == m = Primary

Take(w, m) ==
    /\ ready /\ ~serving[w].busy
    /\ Polled(m)
    /\ serving' = [serving EXCEPT ![w] = [job |-> m, by |-> ManagerFor(m), busy |-> TRUE]]
    /\ UNCHANGED <<ready, registry, names, loading, created>>

AnswerJob(w) ==
    /\ serving[w].busy
    /\ serving' = [serving EXCEPT ![w] = Waiting]
    /\ UNCHANGED <<ready, registry, names, loading, created>>

RegistryNext ==
    \/ \E m \in Model : Load(m) \/ Unload(m)
    \/ \E s \in loading : LoadEnds(s) \/ LoadFails(s)
    \/ \E w \in Worker : AnswerJob(w) \/ \E m \in Model : Take(w, m)

RegistrySpec == RegistryInit /\ [][RegistryNext]_registryVars

-----------------------------------------------------------------------------
\* What is filed under a model is a manager of that model.
FiledByModel ==
    /\ names = DOMAIN registry
    /\ \A m \in DOMAIN registry : registry[m].model = m

\* Loads that overlap, an unload during a load or a job, and a model that is not
\* registered never make a worker answer a job with another model (server.py:218).
ServedByItsModel == \A w \in Worker : serving[w].busy => serving[w].by.model = serving[w].job
=============================================================================
