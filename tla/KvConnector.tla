---------------------------- MODULE KvConnector ----------------------------
(* MooncakeStoreConnector (vllm-connector/mooncake_store_connector.py): several *)
(* engines share one store.  Per scheduler step an engine looks up each request *)
(* of the batch, builds the connector metadata, then its worker loads the       *)
(* requests that hit and saves the ones that missed, layer by layer.            *)
EXTENDS Integers, Sequences, FiniteSets, SequencesExt

CONSTANTS Engine,    \* processes with a connector
          Direct,    \* the engines on which the GPU direct path is on
          Layers,    \* number of layers, positive
          BlockSize, \* tokens per block, positive
          Request,   \* records [prompt, output, resumed]
          MaxBatch   \* requests of one scheduler step

VARIABLES store,      \* the objects in the store: key -> number of bytes
          phase,      \* what an engine is doing
          requests,   \* the batch of the current scheduler step
          next,       \* position in the batch, in the metadata or in the layers
          needLoad,   \* _requests_need_load (positions in the batch)
          meta,       \* MooncakeStoreConnectorMetadata.requests
          layer,      \* the layer being loaded or saved
          registered, \* _registered_spdk_buffers (layers; one storage each)
          answer      \* the last result code of the store

vars == <<store, phase, requests, next, needLoad, meta, layer, registered, answer>>

(* align_to_block_size: the tokens before the block of the last token. *)
align_to_block_size(n) == IF n <= 0 THEN 0 ELSE ((n - 1) \div BlockSize) * BlockSize

(* _object_key: the digest of the tokens, the format and the layer. *)
ObjectKey(e, l, tokens) == [direct |-> e \in Direct, tokens |-> tokens, layer |-> l]

(* _marker_key: layer 0 stands for "__marker__". *)
MarkerKey(e, tokens) == ObjectKey(e, 0, tokens)

(* make_meta: the tokens are cut to whole blocks, the blocks are kept. *)
MakeMeta(tokens, isStore) ==
  [tokens |-> SubSeq(tokens, 1, align_to_block_size(Len(tokens))),
   blocks |-> (Len(tokens) + BlockSize - 1) \div BlockSize,
   isStore |-> isStore]

(* _found_match_for_prompt *)
FoundMatch(e, prompt) ==
  MarkerKey(e, SubSeq(prompt, 1, align_to_block_size(Len(prompt) - 1))) \in DOMAIN store

Init ==
  /\ store = << >>
  /\ phase = [e \in Engine |-> "new"]
  /\ requests = [e \in Engine |-> << >>]
  /\ next = [e \in Engine |-> 1]
  /\ needLoad = [e \in Engine |-> {}]
  /\ meta = [e \in Engine |-> << >>]
  /\ layer = [e \in Engine |-> 1]
  /\ registered = [e \in Engine |-> {}]
  /\ answer = [e \in Engine |-> 0]

Goto(e, p) == phase' = [phase EXCEPT ![e] = p]

(* register_kv_caches and _record_tensor_storage: on the direct path every      *)
(* layer is registered in turn; the first failure raises.                       *)
register_kv_caches(e) ==
  /\ phase[e] = "new"
  /\ \/ /\ e \notin Direct
        /\ Goto(e, "idle")
        /\ UNCHANGED <<registered, answer>>
     \/ /\ e \in Direct
        /\ registered' = [registered EXCEPT ![e] = 1 .. Layers]
        /\ answer' = [answer EXCEPT ![e] = 0]
        /\ Goto(e, "idle")
     \/ /\ e \in Direct
        /\ \E n \in 0 .. Layers - 1 : registered' = [registered EXCEPT ![e] = 1 .. n]
        /\ answer' = [answer EXCEPT ![e] = -1]
        /\ Goto(e, "raised")
  /\ UNCHANGED <<store, requests, next, needLoad, meta, layer>>

(* The scheduler of vLLM picks a batch (external). *)
Schedule(e) ==
  /\ phase[e] = "idle"
  /\ \E n \in 1 .. MaxBatch : \E b \in [1 .. n -> Request] :
       requests' = [requests EXCEPT ![e] = b]
  /\ next' = [next EXCEPT ![e] = 1]
  /\ Goto(e, "match")
  /\ UNCHANGED <<store, needLoad, meta, layer, registered, answer>>

(* get_num_new_matched_tokens: what the store has beyond the local cache. *)
NumNewMatchedTokens(e, r, computed) ==
  IF FoundMatch(e, r.prompt)
  THEN align_to_block_size(Len(r.prompt) - 1) - computed
  ELSE 0

(* update_state_after_alloc, after the lookup; the local prefix cache may have  *)
(* computed any whole block of the prompt.                                      *)
update_state_after_alloc(e) ==
  /\ phase[e] = "match"
  /\ LET r == requests[e][next[e]] IN
     \E computed \in {n * BlockSize : n \in 0 .. Len(r.prompt) \div BlockSize} :
       needLoad' = [needLoad EXCEPT ![e] =
         @ \cup {i \in {next[e]} : NumNewMatchedTokens(e, r, computed) > 0}]
  /\ next' = [next EXCEPT ![e] = IF @ = Len(requests[e]) THEN 1 ELSE @ + 1]
  /\ Goto(e, IF next[e] = Len(requests[e]) THEN "build" ELSE "match")
  /\ UNCHANGED <<store, requests, meta, layer, registered, answer>>

(* The metadata of one request: a load if the lookup hit, a store if a second   *)
(* lookup misses; a request resumed after a preemption is only loaded, with its *)
(* output among the tokens.                                                     *)
MetaOf(e, i) ==
  LET r == requests[e][i] IN
  IF i \in needLoad[e] THEN <<MakeMeta(r.prompt \o r.output, FALSE)>>
  ELSE IF r.resumed \/ FoundMatch(e, r.prompt) THEN << >>
  ELSE <<MakeMeta(r.prompt, TRUE)>>

(* build_connector_meta, one request at a time; the map is cleared at the end. *)
build_connector_meta(e) ==
  /\ phase[e] = "build"
  /\ meta' = [meta EXCEPT ![e] = @ \o MetaOf(e, next[e])]
  /\ IF next[e] = Len(requests[e])
     THEN /\ needLoad' = [needLoad EXCEPT ![e] = {}]
          /\ next' = [next EXCEPT ![e] = 1]
          /\ Goto(e, "load")
     ELSE /\ next' = [next EXCEPT ![e] = @ + 1]
          /\ UNCHANGED <<needLoad, phase>>
  /\ layer' = [layer EXCEPT ![e] = 1]
  /\ UNCHANGED <<store, requests, registered, answer>>

(* _block_buffer_vectors: the bytes of all the blocks of the request. *)
BufferBytes(m) == m.blocks

(* batch_get_into_multi_buffers (external): the number of bytes read, or a      *)
(* negative code when the object is missing or longer than the buffers.         *)
GetIntoMultiBuffers(key, bytes) ==
  IF key \in DOMAIN store /\ store[key] <= bytes THEN store[key] ELSE -1

(* _maybe_register_for_direct_read: a failure is only logged. *)
MaybeRegister(e) ==
  \E done \in SUBSET ({layer[e]} \ registered[e]) :
    registered' = [registered EXCEPT ![e] = @ \cup done]

(* The loads go through the requests and, for each, through the layers. *)
NextLoad(e) ==
  IF layer[e] < Layers
  THEN layer' = [layer EXCEPT ![e] = @ + 1] /\ UNCHANGED next
  ELSE layer' = [layer EXCEPT ![e] = 1] /\ next' = [next EXCEPT ![e] = @ + 1]

(* start_load_kv skips the requests to store and ends after the last one. *)
SkipLoad(e) ==
  /\ phase[e] = "load"
  /\ \/ /\ next[e] > Len(meta[e])
        /\ next' = [next EXCEPT ![e] = 1]
        /\ Goto(e, "save")
     \/ /\ next[e] <= Len(meta[e]) /\ meta[e][next[e]].isStore
        /\ next' = [next EXCEPT ![e] = @ + 1]
        /\ UNCHANGED phase
  /\ UNCHANGED <<store, requests, needLoad, meta, layer, registered, answer>>

Loading(e) == phase[e] = "load" /\ next[e] <= Len(meta[e]) /\ ~meta[e][next[e]].isStore

(* _load_direct *)
load_direct(e) ==
  /\ Loading(e) /\ e \in Direct
  /\ MaybeRegister(e)
  /\ LET m == meta[e][next[e]]
         result == GetIntoMultiBuffers(ObjectKey(e, layer[e], m.tokens), BufferBytes(m)) IN
     IF m.blocks = 0
     THEN NextLoad(e) /\ UNCHANGED <<phase, answer>>
     ELSE /\ answer' = [answer EXCEPT ![e] = result]
          /\ IF result # 0
             THEN Goto(e, "raised") /\ UNCHANGED <<next, layer>>
             ELSE NextLoad(e) /\ UNCHANGED phase
  /\ UNCHANGED <<store, requests, needLoad, meta>>

(* _load_cpu_fallback: get gives no bytes for a missing object, and these do    *)
(* not parse.                                                                   *)
load_cpu_fallback(e) ==
  /\ Loading(e) /\ e \notin Direct
  /\ IF ObjectKey(e, layer[e], meta[e][next[e]].tokens) \in DOMAIN store
     THEN NextLoad(e) /\ UNCHANGED <<phase, answer>>
     ELSE /\ answer' = [answer EXCEPT ![e] = -1]
          /\ Goto(e, "raised")
          /\ UNCHANGED <<next, layer>>
  /\ UNCHANGED <<store, requests, needLoad, meta, registered>>

(* put and batch_put_from_multi_buffers (external): 0, also when the object     *)
(* exists already, or a negative code.                                          *)
Put(e, key, bytes) ==
  \/ /\ store' = (IF key \in DOMAIN store THEN store ELSE [k \in {key} |-> bytes] @@ store)
     /\ answer' = [answer EXCEPT ![e] = 0]
  \/ /\ answer' = [answer EXCEPT ![e] = -1]
     /\ UNCHANGED store

(* The saves go through the layers as they are computed and, for each, through  *)
(* the requests.                                                                *)
NextSave(e) ==
  /\ next' = [next EXCEPT ![e] = IF @ < Len(meta[e]) THEN @ + 1 ELSE 1]
  /\ layer' = [layer EXCEPT ![e] = IF next[e] < Len(meta[e]) THEN @ ELSE @ + 1]

Saving(e) == phase[e] = "save" /\ layer[e] <= Layers /\ meta[e] # << >>

SkipSave(e) ==
  /\ Saving(e) /\ ~meta[e][next[e]].isStore
  /\ NextSave(e)
  /\ UNCHANGED <<store, phase, requests, needLoad, meta, registered, answer>>

(* _save_direct and _save_cpu_fallback: a failed put raises; without blocks     *)
(* nothing is put on the direct path.  The blocks of the direct path go to the  *)
(* store whole, the CPU path stores the tokens of whole blocks.                 *)
SaveLayer(e) ==
  /\ Saving(e) /\ meta[e][next[e]].isStore
  /\ LET m == meta[e][next[e]] IN
     \/ /\ e \in Direct /\ m.blocks = 0
        /\ Goto(e, "marker")
        /\ UNCHANGED <<store, answer>>
     \/ /\ e \in Direct => m.blocks > 0
        /\ Put(e, ObjectKey(e, layer[e], m.tokens),
               IF e \in Direct THEN BufferBytes(m) ELSE 1 + Len(m.tokens))
        /\ Goto(e, IF answer'[e] = 0 THEN "marker" ELSE "raised")
  /\ UNCHANGED <<requests, next, needLoad, meta, layer, registered>>

(* _put_marker, after every layer; its result is not looked at. *)
put_marker(e) ==
  /\ phase[e] = "marker"
  /\ Put(e, MarkerKey(e, meta[e][next[e]].tokens), 1)
  /\ NextSave(e)
  /\ Goto(e, "save")
  /\ UNCHANGED <<requests, needLoad, meta, registered>>

(* The step of the engine is over: the metadata is dropped. *)
StepEnds(e) ==
  /\ phase[e] = "save" /\ ~Saving(e)
  /\ meta' = [meta EXCEPT ![e] = << >>]
  /\ requests' = [requests EXCEPT ![e] = << >>]
  /\ next' = [next EXCEPT ![e] = 1]
  /\ layer' = [layer EXCEPT ![e] = 1]
  /\ Goto(e, "idle")
  /\ UNCHANGED <<store, needLoad, registered, answer>>

(* shutdown: every buffer is unregistered, failures included. *)
shutdown(e) ==
  /\ phase[e] \in {"idle", "raised"}
  /\ registered' = [registered EXCEPT ![e] = {}]
  /\ Goto(e, "down")
  /\ UNCHANGED <<store, requests, next, needLoad, meta, layer, answer>>

(* The store evicts an object (external). *)
Evict ==
  /\ \E key \in DOMAIN store : store' = [k \in DOMAIN store \ {key} |-> store[k]]
  /\ UNCHANGED <<phase, requests, next, needLoad, meta, layer, registered, answer>>

Next ==
  \/ \E e \in Engine :
       \/ register_kv_caches(e) \/ Schedule(e) \/ update_state_after_alloc(e)
       \/ build_connector_meta(e)
       \/ SkipLoad(e) \/ load_direct(e) \/ load_cpu_fallback(e)
       \/ SkipSave(e) \/ SaveLayer(e) \/ put_marker(e) \/ StepEnds(e)
       \/ shutdown(e)
  \/ Evict

Spec == Init /\ [][Next]_vars

-----------------------------------------------------------------------------

(* A worker raises only if the store reported an error, that is a negative      *)
(* value.  batch_get_into_multi_buffers returns the number of bytes read on     *)
(* success (real_client.h 160-161), and _load_direct raises on every result     *)
(* that is not 0, so every hit on the direct path raises.                       *)
RaisesOnlyOnErrors == \A e \in Engine : phase[e] = "raised" => answer[e] < 0

=============================================================================
