-------------------------------- MODULE Adapters --------------------------------
(***************************************************************************)
(* LoRA adapters (node/adapter_manager.py): specs in a registry, weights in   *)
(* at most MaxLoaded slots, and the forward hooks that wire the active       *)
(* adapter into the model.  Nothing in a method awaits, so each one is a      *)
(* step, and swap's lock is never contended.                                 *)
(***************************************************************************)
EXTENDS Integers, SequencesExt, FiniteSetsExt

CONSTANTS
    Adapter,
    NoAdapter,
    Modules,      \* the named modules of the model, in the order of its walk
    Broken,       \* [adapter -> modules whose checkpoint lacks one of the two matrices]
    Unreadable,   \* the adapters whose checkpoint cannot be read
    MaxLoaded,    \* _max_loaded
    MaxHooks      \* bound: hooks that an adapter has on one module at a time

ASSUME AdaptersAssumption == MaxLoaded \in Nat \ {0}

VARIABLES
    registered,   \* _registry
    slots,        \* _slots, the least recently used first
    active,       \* _active_id
    handles,      \* _hook_handles: hooks <<adapter, module, number>>
    attached      \* the hooks that the model really has

adapterVars == <<registered, slots, active, handles, attached>>

AdaptersInit ==
    /\ registered = {} /\ slots = <<>> /\ active = NoAdapter
    /\ handles = {} /\ attached = {}

Register(a) ==
    /\ registered' = registered \union {a}
    /\ UNCHANGED <<slots, active, handles, attached>>

\* What the methods change, as one value that they hand to each other.
Now == [slots |-> slots, active |-> active, handles |-> handles, attached |-> attached]

Become(m) ==
    /\ slots' = m.slots /\ active' = m.active
    /\ handles' = m.handles /\ attached' = m.attached
    /\ \A h \in attached' : h[3] <= MaxHooks
    /\ UNCHANGED registered

Used(q, a) == Append(RemoveFirst(q, a), a)

\* A defective variant of the next definition, which no specification uses.
UnloadedStaysActive_Bad(m, a) ==
    [m EXCEPT !.slots = RemoveFirst(@, a),
              !.handles = IF m.active = a THEN {} ELSE @]

\* unload forgets the hooks of an active adapter; it does not remove them.
Unloaded(m, a) ==
    [m EXCEPT !.slots = RemoveFirst(@, a),
              !.handles = IF m.active = a THEN {} ELSE @,
              !.active = IF @ = a THEN NoAdapter ELSE @]

\* _evict_lru: the least recently used one that is not active, if there is one.
EvictLRU(m) ==
    LET others == {i \in DOMAIN m.slots : m.slots[i] # m.active}
    IN Unloaded(m, m.slots[IF others # {} THEN Min(others) ELSE 1])

MadeRoom(m) == IF Len(m.slots) >= MaxLoaded THEN EvictLRU(m) ELSE m

\* _load_weights, which makes placeholders when there is no checkpoint at all.
Readable(a) == a \notin Unreadable

\* load: a slot that is there is only marked as used; room is made before the
\* checkpoint is read, and reading may fail.
Loaded(m, a) ==
    IF a \in ToSet(m.slots) THEN [m EXCEPT !.slots = Used(@, a)]
    ELSE IF ~Readable(a) THEN MadeRoom(m)
    ELSE LET room == MadeRoom(m) IN [room EXCEPT !.slots = Append(@, a)]

Unhooked(m) == [m EXCEPT !.attached = @ \ m.handles, !.handles = {}]

\* The modules that activate hooks: all of them, or those before a broken one.
Hookable(a) ==
    {Modules[i] : i \in {j \in DOMAIN Modules : \A k \in 1 .. j : Modules[k] \notin Broken[a]}}

\* activate removes the hooks there are, then adds one per module; a module without
\* one of its matrices ends it, and the adapter is not marked active.
Activated(m, a) ==
    LET bare == Unhooked(m)
        Free(x) == CHOOSE n \in 1 .. MaxHooks + 1 :
                       /\ <<a, x, n>> \notin bare.attached
                       /\ \A k \in 1 .. n - 1 : <<a, x, k>> \in bare.attached
        hooks == {<<a, x, Free(x)>> : x \in Hookable(a)}
        hooked == [bare EXCEPT !.handles = hooks, !.attached = @ \union hooks]
    IN IF Broken[a] \intersect ToSet(Modules) # {} THEN hooked
       ELSE [hooked EXCEPT !.active = a, !.slots = Used(@, a)]

Deactivated(m) == [Unhooked(m) EXCEPT !.active = NoAdapter]

LoadAdapter(a) == a \in registered /\ Become(Loaded(Now, a))
UnloadAdapter(a) == a \in ToSet(slots) /\ Become(Unloaded(Now, a))
Activate(a) == a \in ToSet(slots) /\ Become(Activated(Now, a))
Deactivate == Become(Deactivated(Now))

\* swap deactivates whatever is active, loads and activates.
Swap(a) ==
    LET clean == IF active # NoAdapter THEN Deactivated(Now) ELSE Now
        loaded == IF a \in ToSet(clean.slots) THEN clean ELSE Loaded(clean, a)
    IN /\ a \in registered
       /\ Become(IF a \in ToSet(loaded.slots) THEN Activated(loaded, a) ELSE loaded)

\* A forward pass of the model runs every hook, and a hook marks its slot as used,
\* which is one of the slots unless it has been unloaded meanwhile.
Infer ==
    \E h \in attached :
        /\ slots' = IF h[1] \in ToSet(slots) THEN Used(slots, h[1]) ELSE slots
        /\ UNCHANGED <<registered, active, handles, attached>>

AdaptersNext ==
    \/ \E a \in Adapter : Register(a) \/ LoadAdapter(a) \/ UnloadAdapter(a) \/ Activate(a) \/ Swap(a)
    \/ Deactivate \/ Infer

AdaptersSpec == AdaptersInit /\ [][AdaptersNext]_adapterVars
-----------------------------------------------------------------------------
(* Properties. *)

\* The manager can always take out what it knows to be in the model: the hooks it
\* remembers are there and belong to one adapter; the active adapter is loaded; and
\* there are never more weights in memory than slots.
HooksAreTracked ==
    /\ handles \subseteq attached
    /\ \A h, g \in handles : h[1] = g[1]
    /\ active # NoAdapter => active \in ToSet(slots)
    /\ Len(slots) <= MaxLoaded

\* The model is only changed by the active adapter.
OnlyActiveIsWired == \A h \in attached : h[1] = active
=============================================================================
