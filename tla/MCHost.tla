------------------------------- MODULE MCHost --------------------------------
(***************************************************************************)
(* What the application does to its host, each part checked on its own     *)
(* instance: installs, the model library, the memory estimate, a           *)
(* benchmark's workspace and the login throttle.  The parts share no       *)
(* variable; each behaviour moves one of them (`part') while the others    *)
(* wait in one of their initial states.                                    *)
(***************************************************************************)
EXTENDS Installs, Library, MemoryFit, Workspace, LoginThrottle, TLC

----------------------------------------------------------------------------
(* A release, downloads, three models and texts                            *)

MCPublished == {[name |-> n[1], primary |-> n[2], backend |-> n[3], key |-> n[4], digest |-> n[5]] :
     n \in {<<"cuda", TRUE, "cuda", "k", TRUE>>,
            <<"cudart", FALSE, "cuda", "rt", FALSE>>,
            <<"cpu", TRUE, "", "k", TRUE>>}}

\* A model with its projector, and the same model without.
MCFilesOf == [j \in Parcels |-> IF j = "j1" THEN {"m1", "proj"} ELSE {"m1"}]
MCPrimaryOf == [j \in Parcels |-> "m1"]
MCShardsOf == [f \in {"m1"} |-> {f}]

MCNoDraft == [layers |-> 0]
\* Tensors of a layer: other weights and, in a MoE model, two expert tensors.
T(k, x, s) == [layer |-> k, expert |-> x, size |-> s]
Model(tensors, heads, recurrent, interval, window, pattern, every, state) ==
  [layers |-> Len(heads), tensors |-> tensors, trained |-> 4, heads |-> heads, recurrent |-> recurrent,
   interval |-> interval, perLayer |-> TRUE, window |-> window, pattern |-> pattern,
   every |-> every, state |-> state, vocabulary |-> 2, width |-> 1]
Dense == Model(<<T(Outside, FALSE, 2), T(0, FALSE, 3), T(1, FALSE, 5),
                 T(2, FALSE, 2), T(3, FALSE, 2)>>,
               <<1, 1, 1>>, FALSE, 0, 1, <<TRUE>>, 2, 0)
Moe == Model(<<T(0, FALSE, 1), T(1, TRUE, 4), T(0, TRUE, 2), T(0, TRUE, 1), T(1, FALSE, 1),
               T(1, TRUE, 3), T(2, FALSE, 1), T(Outside, FALSE, 1)>>,
               <<1, 1>>, FALSE, 0, 0, <<>>, 0, 0)
Hybrid == Model(<<T(0, FALSE, 1), T(1, FALSE, 2), T(1, TRUE, 3), T(2, FALSE, 1)>>, <<1, 1>>, TRUE, 2, 0, <<>>, 0, 1)
MCGgufs == {Dense, Moe, Hybrid}
\* The KV cache is quantized and stays in VRAM, or neither.
MCSettings == {s \in
  [context : {0, 2}, parallel : {0}, batch : {2}, ubatch : {1, 4}, flash : BOOLEAN,
   kvOffload : BOOLEAN, swaFull : {FALSE}, gpuLayers : {AutoLayers, Unset, 1}, moe : {Unset, 1},
   overrides : {<<>>, <<[layers |-> 0..2, expertsOnly |-> TRUE, gpu |-> FALSE]>>},
   draftLayers : {AutoLayers}, draftMoe : {Unset}, draftK : {"f16"}, draftV : {"f16"},
   typeK : {"f16"}, typeV : {"q8_0"},
   projector : {1}, projectorOffload : {TRUE}, fit : BOOLEAN, fitTarget : {1}] :
  s.flash = s.kvOffload /\ (s.context = 0 <=> s.ubatch = 1)}
MCMachines == {[gpus |-> 0, capacity |-> Unset, free |-> Unset]}
  \cup [gpus : {1}, capacity : {20}, free : {Unset, 4, 9, 14, 18, 24, 30, 45}]
MCCacheSize == [f16 |-> 2, q8_0 |-> 1]

MCResolves == "main.ts" :> "main.ts" @@ "lib.ts" :> "lib.ts"
  @@ "lib.js" :> "lib.js" @@ "page" :> "page"
  @@ " page" :> "page" @@ "index" :> "index"
MCDrafts == {<<"x">>, <<"p">>, <<"t", "x">>}
MCEdits == {[old |-> <<"p">>, new |-> <<"s">>, all |-> FALSE, line |-> 0],
            [old |-> <<"x">>, new |-> <<"x", "p", "s">>, all |-> TRUE, line |-> 0]}
TextsTo(n) == UNION {[1..k -> Chars] : k \in 0..n}
MCTriedTexts == TextsTo(3) \cup [1..4 -> {"x", "p", "n"}] \cup [1..5 -> {"x", "r", "n"}]
MCTriedEdits == {[old |-> o, new |-> n[1], line |-> n[2]] :
  o \in TextsTo(2) \cup {<<"x", "n", "x">>}, n \in {<<<<>>, 0>>, <<<<"n">>, 2>>}}

----------------------------------------------------------------------------
VARIABLE part
vars == <<part, InstallVars, LibraryVars, FitVars, WorkspaceVars, ThrottleVars>>

\* A run with tasks, or one with TypeScript: the two meet only in finish_job.
PlansOrBuilds ==
  /\ typescript \in BOOLEAN /\ planning = ~typescript
  /\ tasks \in IF planning THEN {<<>>, <<"open">>} ELSE {<<>>}

\* One initial state of every part that does not move.
Waits ==
  /\ IF part = "installs" THEN TRUE ELSE tools = {}
  /\ IF part = "library" THEN TRUE ELSE file = [f \in ModelFiles |-> "absent"]
  /\ IF part = "memory" THEN TRUE
     ELSE /\ model = Dense /\ draft = NoDraft
          /\ devices = [gpus |-> 0, capacity |-> Unset, free |-> Unset]
          /\ values = CHOOSE s \in Settings : TRUE
  /\ IF part = "workspace" THEN PlansOrBuilds
     ELSE typescript = FALSE /\ planning = FALSE /\ tasks = <<>>

Init ==
  /\ part \in {"installs", "library", "memory", "workspace", "throttle"} /\ Waits
  /\ InstallsInit /\ LibraryInit /\ MemoryFitInit /\ WorkspaceInit /\ ThrottleInit

Next ==
  /\ UNCHANGED part
  /\ \/ part = "installs" /\ InstallsNext
        /\ UNCHANGED <<LibraryVars, FitVars, WorkspaceVars, ThrottleVars>>
     \/ part = "library" /\ LibraryNext
        /\ UNCHANGED <<InstallVars, FitVars, WorkspaceVars, ThrottleVars>>
     \/ part = "memory" /\ MemoryFitNext
        /\ UNCHANGED <<InstallVars, LibraryVars, WorkspaceVars, ThrottleVars>>
     \/ part = "workspace" /\ WorkspaceNext
        /\ UNCHANGED <<InstallVars, LibraryVars, FitVars, ThrottleVars>>
     \/ part = "throttle" /\ ThrottleNext
        /\ UNCHANGED <<InstallVars, LibraryVars, FitVars, WorkspaceVars>>

Spec == Init /\ [][Next]_vars

\* Accounts, and addresses, are interchangeable.
Symmetry == Permutations(Names) \cup Permutations(Addresses)

=============================================================================
