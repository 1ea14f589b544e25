------------------------------- MODULE MemoryFit ------------------------------
(***************************************************************************)
(* estimate_memory (services/memory_estimate.py): the memory a profile's   *)
(* model takes, and the placement that llama.cpp's --fit chooses when it   *)
(* does not fit the GPU as set, which the code finds with two binary       *)
(* searches.  One behaviour is one estimate, and a step of it one round of  *)
(* a search.                                                               *)
(*                                                                         *)
(* Sizes are small numbers in place of bytes, padded to Pad tokens instead *)
(* of 256.  A tensor is [layer, expert, size]; the layers are numbered     *)
(* from 0, the output tensors have the number of layers, the input         *)
(* embeddings Outside.                                                     *)
(***************************************************************************)
EXTENDS Integers, Sequences, FiniteSets, SequencesExt

CONSTANTS
  Ggufs,     \* models: what their files say
  NoDraft,   \* no draft model
  Settings,  \* argument values of profiles
  Machines,  \* [gpus, capacity, free]: Devices
  Pad, CopiedFrom, \* _PAD; the batch size that copies weights to the GPU (32)
  CacheSize  \* _CACHE_TYPE_BYTES

Unset == -1           \* None
AutoLayers == -2      \* n-gpu-layers is unset or "auto"
Outside == -1

\* What GgufReader reads: whole numbers, a head count for each layer.
ASSUME GgufAssumption ==
  \A m \in Ggufs :
    /\ m.layers \in Nat \ {0} /\ m.heads \in [1..m.layers -> Nat]
    /\ m.tensors \in Seq([layer : Int, expert : BOOLEAN, size : Nat])
    /\ {m.trained, m.window, m.state, m.vocabulary, m.width} \subseteq Nat

\* What the catalog lets a profile have.
ASSUME SettingsAssumption ==
  \A s \in Settings :
    /\ {s.context, s.batch, s.ubatch, s.projector} \subseteq Nat
    /\ {s.parallel, s.gpuLayers, s.moe, s.draftLayers, s.draftMoe, s.fitTarget} \subseteq Int
    /\ {s.typeK, s.typeV, s.draftK, s.draftV} \subseteq DOMAIN CacheSize

ASSUME MemoryFitAssumption ==
  /\ Pad \in Nat \ {0} /\ CopiedFrom \in Nat /\ NoDraft \notin Ggufs
  /\ \A t \in DOMAIN CacheSize : CacheSize[t] \in Nat
  /\ \A d \in Machines : {d.gpus, d.capacity, d.free} \subseteq Int

VARIABLES
  model, draft, values, devices, \* what is estimated
  at,        \* "estimate", "experts", "smallest", "layers", "largest" or "done"
  placement, \* _Placement of the model
  low, high, \* of the search under way
  fitted     \* what --fit changed: a subset of {"experts", "layers"}

FitVars == <<model, draft, values, devices, at, placement, low, high, fitted>>
input == <<model, draft, values, devices>>

Larger(a, b) == IF a >= b THEN a ELSE b
Smaller(a, b) == IF a <= b THEN a ELSE b
Padded(tokens) == ((tokens + Pad - 1) \div Pad) * Pad

----------------------------------------------------------------------------
(* _Settings and _Placement                                                *)

Gpu == devices.gpus > 0
Context == IF values.context > 0 THEN values.context ELSE model.trained
Slots == IF values.parallel > 0 THEN values.parallel ELSE 4
Ubatch == Smaller(Smaller(values.ubatch, values.batch), Context)

MainPlacement == [layers |-> values.gpuLayers, experts |-> values.moe,
                  overrides |-> values.overrides, toRam |-> {}]
DraftPlacement == [layers |-> values.draftLayers, experts |-> values.draftMoe,
                   overrides |-> <<>>, toRam |-> {}]

\* Layers offload from the last one down; the output layer counts last.
LayerOnGpu(m, p, layer) ==
  Gpu /\ \/ p.layers < 0
         \/ layer >= m.layers /\ p.layers > m.layers
         \/ layer < m.layers /\ layer >= Larger(m.layers - p.layers, 0)

Matches(rule, t) == t.layer \in rule.layers /\ (rule.expertsOnly => t.expert)
InLayer(m, t) == t.layer \in 0..(m.layers - 1)
\* experts is the number of first layers whose experts stay in RAM; cpu-moe, which
\* keeps them all there, is a number past the last layer.
TensorOnGpu(m, p, i) ==
  LET t == m.tensors[i]
      rules == {r \in DOMAIN p.overrides : Matches(p.overrides[r], t)}
  IN  CASE ~Gpu -> FALSE
        [] Gpu /\ rules # {} -> p.overrides[Min(rules)].gpu
        [] Gpu /\ rules = {} ->
             /\ i \notin p.toRam /\ t.layer # Outside
             /\ ~(t.expert /\ p.experts # Unset /\ t.layer < p.experts)
             /\ LayerOnGpu(m, p, t.layer)

----------------------------------------------------------------------------
(* _ModelEstimate: what is on the GPU, and what there is in all            *)

OnGpu(m, p) == {i \in DOMAIN m.tensors : TensorOnGpu(m, p, i)}
SizeOf(m, T) == SumFunctionOnSet([i \in DOMAIN m.tensors |-> m.tensors[i].size], T)

\* _weights: also the most RAM-resident bytes any one layer has.
LargestCpuLayer(m, p) ==
  Max({0} \cup {SizeOf(m, {i \in DOMAIN m.tensors \ OnGpu(m, p) : m.tensors[i].layer = k}) :
                  k \in 0..(m.layers - 1)})

\* _layer_kinds
Attends(m, k) ==
  CASE m.recurrent /\ m.interval > 0 -> (k + 1) % m.interval = 0
    [] m.recurrent /\ m.interval = 0 -> m.perLayer /\ m.heads[k + 1] > 0
    [] OTHER -> m.heads[k + 1] > 0
Slides(m, k) ==
  /\ Attends(m, k) /\ m.window > 0
  /\ \/ k < Len(m.pattern) /\ m.pattern[k + 1]
     \/ k >= Len(m.pattern) /\ m.every > 0 /\ k % m.every < m.every - 1

\* _kv_cache, of one layer
CacheOf(m, k, typeK, typeV) ==
  LET full == Padded(Context)
      windowed == IF values.swaFull THEN full
                  ELSE Smaller(full, Padded(m.window * Slots + Ubatch))
  IN  IF ~Attends(m, k) THEN 0
      ELSE (IF Slides(m, k) THEN windowed ELSE full)
             * m.heads[k + 1] * (CacheSize[typeK] + CacheSize[typeV])
CacheOnGpu(m, p, typeK, typeV) ==
  SumFunctionOnSet([k \in 0..(m.layers - 1) |-> CacheOf(m, k, typeK, typeV)],
                   {k \in 0..(m.layers - 1) : values.kvOffload /\ LayerOnGpu(m, p, k)})

\* _recurrent_state, for every slot
StateOnGpu(m, p) ==
  m.state * Slots * Cardinality({k \in 0..(m.layers - 1) :
                                   m.recurrent /\ ~Attends(m, k) /\ LayerOnGpu(m, p, k)})

\* _compute: the activations or the logits, the attention matrix, and a layer
\* that large batches copy to the GPU.
ComputeOnGpu(m, p) ==
  LET logits == m.vocabulary * Ubatch
      activations == m.width * Ubatch
      attention == IF values.flash THEN 0 ELSE Padded(Context) * Ubatch
      output == LayerOnGpu(m, p, m.layers)
  IN  IF \A k \in 0..(m.layers - 1) : ~LayerOnGpu(m, p, k) THEN 0
      ELSE Larger(activations, IF output THEN logits ELSE 0) + attention
           + (IF Ubatch >= CopiedFrom THEN LargestCpuLayer(m, p) ELSE 0)

GpuSize(m, p, typeK, typeV) ==
  SizeOf(m, OnGpu(m, p)) + CacheOnGpu(m, p, typeK, typeV) + StateOnGpu(m, p) + ComputeOnGpu(m, p)

\* estimate_memory: the draft model and the projector are placed first.
Extra ==
  (IF draft = NoDraft THEN 0 ELSE GpuSize(draft, DraftPlacement, values.draftK, values.draftV))
  + (IF Gpu /\ values.projectorOffload THEN values.projector ELSE 0)
MainSize(p) == GpuSize(model, p, values.typeK, values.typeV)

----------------------------------------------------------------------------
(* _fit                                                                    *)

Free == IF devices.free # Unset THEN devices.free ELSE devices.capacity
FitBudget == Free - values.fitTarget
Fits(p) == MainSize(p) <= FitBudget - Extra

\* Expert tensors, in the order of their layers: the first n of them are those
\* that fewer than n others come before.
ExpertTensors ==
  {i \in DOMAIN model.tensors : InLayer(model, model.tensors[i]) /\ model.tensors[i].expert}
Before(i, j) == \/ model.tensors[i].layer < model.tensors[j].layer
                \/ model.tensors[i].layer = model.tensors[j].layer /\ i < j
FirstExperts(n) ==
  {j \in ExpertTensors : Cardinality({i \in ExpertTensors : Before(i, j)}) < n}
MovableExperts == Cardinality(ExpertTensors)
Moved(n) == [placement EXCEPT !.toRam = FirstExperts(n)]
Offloaded(n) == [placement EXCEPT !.layers = n]

ExpertsMayMove == MovableExperts > 0 /\ values.moe = Unset /\ values.overrides = <<>>
LayersMayMove == values.gpuLayers = AutoLayers

MemoryFitInit ==
  /\ model \in Ggufs /\ draft \in Ggufs \cup {NoDraft} /\ values \in Settings
  /\ devices \in Machines
  /\ at = "estimate" /\ placement = MainPlacement /\ low = 0 /\ high = 0 /\ fitted = {}

Goes(step) == at' = step
Searches(step, limit) == Goes(step) /\ low' = 0 /\ high' = limit
Halves(l, h) == low' = l /\ high' = h /\ UNCHANGED <<at, placement, fitted>>
Middle == (low + high) \div 2
UpperMiddle == (low + high + 1) \div 2

\* The placement as set, and whether --fit would change it.
Estimates ==
  /\ at = "estimate" /\ UNCHANGED <<input, placement, low, high, fitted>>
  /\ IF Gpu /\ values.fit /\ Free # Unset /\ ~Fits(placement)
     THEN Goes(IF ExpertsMayMove THEN "experts" ELSE "layers")
     ELSE Goes("done")

\* _smallest starts with its limit: with all experts in RAM it fits or not.
MovesExperts ==
  /\ at = "experts" /\ fitted' = {"experts"} /\ UNCHANGED input
  /\ IF Fits(Moved(MovableExperts))
     THEN Searches("smallest", MovableExperts) /\ UNCHANGED placement
     ELSE placement' = Moved(MovableExperts) /\ Goes("layers") /\ UNCHANGED <<low, high>>
Smallest ==
  /\ at = "smallest" /\ low < high /\ UNCHANGED input
  /\ IF Fits(Moved(Middle)) THEN Halves(low, Middle) ELSE Halves(Middle + 1, high)
ExpertsPlaced ==
  /\ at = "smallest" /\ low = high /\ placement' = Moved(low) /\ Goes("done")
  /\ UNCHANGED <<input, low, high, fitted>>

\* _largest starts with 0: without any layer it fits or not.
MovesLayers ==
  /\ at = "layers" /\ UNCHANGED input
  /\ CASE ~LayersMayMove -> Goes("done") /\ UNCHANGED <<placement, low, high, fitted>>
       [] LayersMayMove /\ Fits(Offloaded(0)) ->
            /\ Searches("largest", model.layers + 1) /\ fitted' = fitted \cup {"layers"}
            /\ UNCHANGED placement
       [] LayersMayMove /\ ~Fits(Offloaded(0)) ->
            /\ placement' = Offloaded(0) /\ fitted' = fitted \cup {"layers"} /\ Goes("done")
            /\ UNCHANGED <<low, high>>
\* A variant: the search rounds down and drops the middle it has just tried.
LargestOffByOne ==
  /\ at = "largest" /\ low < high /\ UNCHANGED input
  /\ IF Fits(Offloaded(Middle)) THEN Halves(Middle + 1, high) ELSE Halves(low, Middle)
Largest ==
  /\ at = "largest" /\ low < high /\ UNCHANGED input
  /\ IF Fits(Offloaded(UpperMiddle)) THEN Halves(UpperMiddle, high) ELSE Halves(low, UpperMiddle - 1)
LayersPlaced ==
  /\ at = "largest" /\ low = high /\ placement' = Offloaded(low) /\ Goes("done")
  /\ UNCHANGED <<input, low, high, fitted>>

MemoryFitNext ==
  \/ Estimates \/ MovesExperts \/ Smallest \/ ExpertsPlaced
  \/ MovesLayers \/ Largest \/ LayersPlaced

MemoryFitSpec == MemoryFitInit /\ [][MemoryFitNext]_FitVars

\* _fit_notes
Notes ==
  LET size == MainSize(placement) + Extra
  IN  IF ~Gpu THEN {}
      ELSE (IF values.fit /\ fitted # {} THEN {"fitted"} ELSE {})
           \cup (IF values.fit /\ Free # Unset /\ size > FitBudget THEN {"may not load"} ELSE {})
           \cup (IF ~values.fit /\ devices.capacity # Unset /\ size > devices.capacity
                 THEN {"spills"} ELSE {})

----------------------------------------------------------------------------
(* Properties                                                              *)

MemoryFitTypeOK ==
  /\ at \in {"estimate", "experts", "smallest", "layers", "largest", "done"}
  /\ placement.toRam \subseteq DOMAIN model.tensors
  /\ placement.layers \in {Unset, AutoLayers} \cup 0..(model.layers + 1) \cup {values.gpuLayers}
  /\ 0 <= low /\ low <= high /\ high <= Larger(Len(model.tensors), model.layers + 1)

\* Every placement that --fit may choose: experts moved from the first on while
\* all layers stay, or all of them moved and fewer layers.
Permitted ==
  LET moved(n) == [MainPlacement EXCEPT !.toRam = FirstExperts(n)]
      all == IF ExpertsMayMove THEN moved(MovableExperts) ELSE MainPlacement
  IN  {MainPlacement}
      \cup (IF ExpertsMayMove THEN {moved(n) : n \in 0..MovableExperts} ELSE {})
      \cup (IF LayersMayMove THEN {[all EXCEPT !.layers = n] : n \in 0..(model.layers + 1)} ELSE {})
Keeps(p, q) == OnGpu(model, q) \subseteq OnGpu(model, p)

\* The placement that is shown is the best one: the searches, which look at few
\* of the choices, find one that fits whenever any does, and no choice that fits
\* keeps more on the GPU.  "It may not load" is said exactly when none fits.
BestWhenDone ==
  at = "done" /\ Gpu /\ values.fit /\ Free # Unset =>
    /\ placement \in Permitted
    /\ Fits(placement) <=> \E p \in Permitted : Fits(p)
    /\ Fits(placement) => \A p \in Permitted : Fits(p) => Keeps(placement, p)
    /\ "may not load" \in Notes <=> \A p \in Permitted : ~Fits(p)

\* The estimate's searches stay within their bounds and find the best placement.
FitIsBest == MemoryFitTypeOK /\ BestWhenDone
=============================================================================
