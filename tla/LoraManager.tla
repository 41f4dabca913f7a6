---------------------------- MODULE LoraManager ------------------------------
(***************************************************************************)
(* vllm/lora: LRUCacheWorkerLoRAManager over LRUCacheLoRAModelManager, as  *)
(* the model runner of one worker drives them.  LoRAs are registered in    *)
(* CPU memory and active in a slot of the GPU buffers, both under an LRU   *)
(* policy.  A batch makes its LoRAs active and maps its rows to slots;     *)
(* between two batches LLMEngine.add_lora and remove_lora may be called.   *)
(*                                                                         *)
(* sampler_indices_padded and embeddings_indices are computed from the     *)
(* same slots as the indices here, at the same place, and are left out.    *)
(***************************************************************************)
EXTENDS Integers, SequencesExt

CONSTANTS
    Loras,          \* lora_int_id of the requests
    MaxLoras,       \* LoRAConfig.max_loras
    MaxCpuLoras,    \* LoRAConfig.max_cpu_loras
    Mappings        \* LoRAMapping of the batches: ids per token and per sample

None == 0           \* no LoRA: id 0 in a mapping, None in a slot
NoSlot == -1
Slots == 0..(MaxLoras - 1)
LoraMapping == [index : Seq(Loras \cup {None}), prompt : Seq(Loras \cup {None})]

\* LoRARequest.__post_init__, LoRAConfig.__post_init__; a sample has a token in
\* the batch (_prepare_prompt, _prepare_decode).
ASSUME LoraAssumption ==
    /\ Loras \subseteq Nat \ {0}
    /\ MaxLoras \in Nat \ {0}
    /\ MaxCpuLoras \in Nat /\ MaxCpuLoras >= MaxLoras
    /\ Mappings \subseteq LoraMapping
    /\ \A m \in Mappings : Range(m.prompt) \subseteq Range(m.index)

VARIABLES
    manager,           \* registered, active: LRU caches, the oldest id first
                       \* index: lora_index_to_id; buffers: whose weights a slot has
    lastMapping,       \* _last_mapping
    baseIndices,       \* base_indices up to indices_len[0]
    samplerIndices,    \* sampler_indices up to indices_len[1]
    pc,                \* where execute_model is
    batch,             \* the mapping of the batch
    toApply,           \* its LoRAs _apply_loras has still to add
    calls              \* a call that loads or unloads LoRAs between two batches, or
                       \* remove_all_loras, came after the last _set_lora_mapping

indexVars == <<lastMapping, baseIndices, samplerIndices>>
batchVars == <<batch, toApply>>
loraVars == <<manager, indexVars, pc, batchVars, calls>>

NoMapping == [index |-> << >>, prompt |-> << >>]
LorasOf(m) == Range(m.index) \ {None}
-----------------------------------------------------------------------------
(***************************************************************************)
(* LRUCache and LRUCacheLoRAModelManager, as functions of the manager      *)
(***************************************************************************)

\* OrderedDict.move_to_end, of a key that may be new.
Touch(cache, l) == Append(RemoveFirst(cache, l), l)

\* deactivate_lora, and _on_remove of the active LoRAs.
Deactivate(m, l) ==
    [m EXCEPT !.active = RemoveFirst(@, l),
              !.index = [i \in Slots |-> IF @[i] = l THEN None ELSE @[i]]]

\* A LoRA that is unloaded stays active.
BugUnregister(m, l) == [m EXCEPT !.registered = RemoveFirst(@, l)]

\* remove_lora, and _on_remove of the registered LoRAs.
Unregister(m, l) == [Deactivate(m, l) EXCEPT !.registered = RemoveFirst(@, l)]

\* activate_lora.  SlotsHoldTheirLoras has a slot free for it, so that
\* "No free lora slots" is never raised.
FreeSlots(m) == {i \in Slots : m.index[i] = None}
MakeSlot(m) == IF Len(m.active) >= MaxLoras THEN Deactivate(m, Head(m.active)) ELSE m
IntoFreeSlot(m, l) ==
    LET slot == Min(FreeSlots(m))
    IN  [m EXCEPT !.active = Append(@, l), !.index[slot] = l, !.buffers[slot] = l]
Activate(m, l) ==
    IF l \in Range(m.active) THEN [m EXCEPT !.active = Touch(@, l)]
    ELSE IntoFreeSlot(MakeSlot(m), l)

\* LRUCacheWorkerLoRAManager.add_lora removes the oldest LoRA before it loads.
IsLoaded(m, l) == l \in Range(m.registered)
MakeRoom(m, l) ==
    IF ~IsLoaded(m, l) /\ Len(m.registered) + 1 > MaxCpuLoras
    THEN Unregister(m, Head(m.registered))
    ELSE m
WithLora(m, l) == Activate([MakeRoom(m, l) EXCEPT !.registered = Touch(@, l)], l)
-----------------------------------------------------------------------------
(***************************************************************************)
(* Calls between two batches                                               *)
(***************************************************************************)

\* LLMEngine.add_lora.
AddLora(l) ==
    /\ pc = "idle"
    /\ manager' = WithLora(manager, l)
    /\ calls' = TRUE
    /\ UNCHANGED <<indexVars, pc, batchVars>>

\* _load_lora raises, and the caller of add_lora goes on.
AddLoraFails(l) ==
    /\ pc = "idle" /\ ~IsLoaded(manager, l)
    /\ manager' = MakeRoom(manager, l)
    /\ calls' = TRUE
    /\ UNCHANGED <<indexVars, pc, batchVars>>

\* LLMEngine.remove_lora.
RemoveLora(l) ==
    /\ pc = "idle"
    /\ manager' = Unregister(manager, l)
    /\ calls' = TRUE
    /\ UNCHANGED <<indexVars, pc, batchVars>>
-----------------------------------------------------------------------------
(***************************************************************************)
(* ModelRunner.execute_model                                               *)
(***************************************************************************)

\* _apply_loras: "Number of requested LoRAs is greater than ..." ends the engine.
StartBatch(b) ==
    /\ pc = "idle"
    /\ batch' = b /\ toApply' = LorasOf(b)
    /\ pc' = IF Cardinality(LorasOf(b)) > MaxLoras THEN "RuntimeError" ELSE "apply"
    /\ UNCHANGED <<manager, indexVars, calls>>

\* The requests are a set: their LoRAs are added in any order.
ApplyLora(l) ==
    /\ pc = "apply" /\ l \in toApply
    /\ manager' = WithLora(manager, l)
    /\ toApply' = toApply \ {l}
    /\ UNCHANGED <<indexVars, pc, batch, calls>>

ApplyLoraFails(l) ==
    /\ pc = "apply" /\ l \in toApply /\ ~IsLoaded(manager, l)
    /\ manager' = MakeRoom(manager, l)
    /\ pc' = "RuntimeError"
    /\ UNCHANGED <<indexVars, batchVars, calls>>

\* convert_mapping: the slot of every id, -1 for none.
SlotOf(l) == IF l = None THEN NoSlot ELSE CHOOSE i \in Slots : manager.index[i] = l
Indices(ids) == [i \in DOMAIN ids |-> SlotOf(ids[i])]
ConvertMapping ==
    /\ baseIndices' = Indices(batch.index)
    /\ samplerIndices' = Indices(batch.prompt)
    /\ calls' = FALSE

\* The rows are compared, the samples are not.
BugSetLoraMapping ==
    /\ pc = "apply" /\ toApply = {}
    /\ IF lastMapping.index # batch.index THEN ConvertMapping
       ELSE UNCHANGED <<baseIndices, samplerIndices, calls>>
    /\ lastMapping' = batch
    /\ pc' = "execute"
    /\ UNCHANGED <<manager, batchVars>>

\* set_lora_mapping keeps the indices of an equal mapping.
SetLoraMapping ==
    /\ pc = "apply" /\ toApply = {}
    /\ IF lastMapping # batch THEN ConvertMapping
       ELSE UNCHANGED <<baseIndices, samplerIndices, calls>>
    /\ lastMapping' = batch
    /\ pc' = "execute"
    /\ UNCHANGED <<manager, batchVars>>

EndBatch ==
    /\ pc = "execute"
    /\ pc' = "idle"
    /\ UNCHANGED <<manager, indexVars, batchVars, calls>>
-----------------------------------------------------------------------------
\* profile_run: the warm-up LoRAs 1, 2, ... in turn, as a batch may have them again.
WarmUpMappings == {m \in Mappings : \E n \in 1..MaxLoras : Range(m.index) = 1..n}

\* remove_all_loras came after the profile run, and keeps its mapping and its
\* indices, whatever slots it had.  With CUDA graphs, the last graph was captured
\* with a mapping to no LoRA since.  A mapping that no batch has is as good as none.
LoraInit ==
    /\ manager = [registered |-> << >>, active |-> << >>,
                  index |-> [i \in Slots |-> None], buffers |-> [i \in Slots |-> None]]
    /\ lastMapping \in {NoMapping} \cup {m \in Mappings : LorasOf(m) = {}}
                      \cup WarmUpMappings
    /\ \E slot \in Injection(LorasOf(lastMapping), Slots) :
          LET WarmUpSlots(ids) ==
                [i \in DOMAIN ids |-> IF ids[i] = None THEN NoSlot ELSE slot[ids[i]]]
          IN  /\ baseIndices = WarmUpSlots(lastMapping.index)
              /\ samplerIndices = WarmUpSlots(lastMapping.prompt)
    /\ pc = "idle" /\ batch = NoMapping /\ toApply = {}
    /\ calls = (LorasOf(lastMapping) # {})

Calls == \E l \in Loras : AddLora(l) \/ AddLoraFails(l) \/ RemoveLora(l)

ExecuteModel ==
    \/ \E b \in Mappings : StartBatch(b)
    \/ \E l \in Loras : ApplyLora(l) \/ ApplyLoraFails(l)
    \/ SetLoraMapping \/ EndBatch

LoraNext == Calls \/ ExecuteModel

LoraSpec == LoraInit /\ [][LoraNext]_loraVars
-----------------------------------------------------------------------------
LoraTypeOK ==
    /\ manager \in [registered : Seq(Loras), active : Seq(Loras),
                    index : [Slots -> Loras \cup {None}], buffers : [Slots -> Loras \cup {None}]]
    /\ {lastMapping, batch} \subseteq Mappings \cup {NoMapping}
    /\ {baseIndices, samplerIndices} \subseteq Seq(Slots \cup {NoSlot})
    /\ pc \in {"idle", "apply", "execute", "RuntimeError"}
    /\ toApply \subseteq Loras
    /\ calls \in BOOLEAN

\* The two LRU caches and the table of slots agree through every mix of loads,
\* evictions, failed loads and removals: both keep their capacity, an active
\* LoRA is registered and has one slot with its own weights, and no other slot
\* is taken (activate_lora, deactivate_lora, LoRALRUCache._on_remove).
SlotsHoldTheirLoras ==
    /\ LoraTypeOK
    /\ IsInjective(manager.registered) /\ Len(manager.registered) <= MaxCpuLoras
    /\ IsInjective(manager.active) /\ Len(manager.active) <= MaxLoras
    /\ Range(manager.active) \subseteq Range(manager.registered)
    /\ Range(manager.index) \ {None} = Range(manager.active)
    /\ \A i \in Slots : manager.index[i] # None =>
          /\ manager.buffers[i] = manager.index[i]
          /\ \A j \in Slots \ {i} : manager.index[j] # manager.index[i]

\* A batch runs with all its LoRAs active, whatever was loaded for it or before
\* it, and every token and every sample has the slot of its own LoRA.  The
\* indices of an equal mapping are kept: they are right unless add_lora,
\* remove_lora or remove_all_loras was called since they were computed
\* (set_active_loras, set_lora_mapping, convert_mapping).
BatchUsesItsLoras ==
    pc = "execute" =>
        /\ LorasOf(batch) \subseteq Range(manager.active)
        /\ ~calls => /\ baseIndices = Indices(batch.index)
                     /\ samplerIndices = Indices(batch.prompt)
=============================================================================
