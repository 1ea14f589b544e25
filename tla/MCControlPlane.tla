--------------------------- MODULE MCControlPlane ----------------------------
(***************************************************************************)
(* The control plane's parts, each checked on its own instance: profiles,  *)
(* serving, accounts and launch arguments.  The parts share no variable, so *)
(* their product would only multiply states; instead each behaviour moves  *)
(* one of them (`part') while the others wait in an initial state.         *)
(***************************************************************************)
EXTENDS Profiles, Serving, Accounts, ProfileArguments, TLC

VARIABLE part
Parts == {"profiles", "serving", "accounts", "arguments"}
vars == <<part, ProfileVars, ServingVars, AccountVars, ArgumentVars>>

\* One initial state of every part that does not move.
Waits ==
  /\ IF part = "serving" THEN TRUE
     ELSE registered = {} /\ offered = {} /\ token = [t \in Tokens |-> "none"]
  /\ IF part = "arguments" THEN TRUE ELSE command = <<>>

Init ==
  /\ part \in Parts
  /\ Waits
  /\ ProfilesInit /\ ServingInit /\ AccountsInit /\ ArgumentsInit

Next ==
  /\ UNCHANGED part
  /\ \/ part = "profiles" /\ ProfilesNext
        /\ UNCHANGED <<ServingVars, AccountVars, ArgumentVars>>
     \/ part = "serving" /\ ServingNext
        /\ UNCHANGED <<ProfileVars, AccountVars, ArgumentVars>>
     \/ part = "accounts" /\ AccountsNext
        /\ UNCHANGED <<ProfileVars, ServingVars, ArgumentVars>>
     \/ part = "arguments" /\ ArgumentsNext
        /\ UNCHANGED <<ProfileVars, ServingVars, AccountVars>>

Spec == Init /\ [][Next]_vars

\* Profiles and runtimes are interchangeable.
Symmetry == Permutations(ProfileIds) \cup Permutations(Runtimes)

----------------------------------------------------------------------------
(* A catalog with an argument of each kind, and what users type for them   *)

D(flag, aliases, negations, type) ==
  [flag |-> flag, aliases |-> aliases, negations |-> negations, type |-> type,
   negation |-> "", repeat |-> FALSE, item |-> "text", allowed |-> {}, outside |-> {},
   arity |-> 1, control |-> "editable", confirm |-> FALSE]
MCCatalog ==
  "model" :> [D("--model", {"-m"}, {}, "text") EXCEPT !.control = "managed"]
  @@ "hf-repo" :> [D("--hf-repo", {"-hf"}, {}, "text") EXCEPT !.control = "managed"]
  @@ "host" :> [D("--host", {}, {}, "text") EXCEPT !.control = "managed"]
  @@ "ctx-size" :> [D("--ctx-size", {"-c"}, {}, "number") EXCEPT !.outside = {"-1"}]
  @@ "fit" :> [D("--fit", {}, {}, "enum") EXCEPT !.allowed = {"on", "off"}]
  @@ "jinja" :> [D("--jinja", {}, {"--no-jinja", "--nj"}, "boolean") EXCEPT !.negation = "--no-jinja"]
  @@ "props" :> [D("--props", {}, {}, "boolean") EXCEPT !.confirm = TRUE]
  @@ "tensor-split" :> [D("--tensor-split", {"-ts"}, {}, "list") EXCEPT !.item = "number"]
  @@ "override-tensor" :> [D("--override-tensor", {"-ot"}, {}, "list") EXCEPT !.repeat = TRUE]
  @@ "layer-range" :> [D("--layer-range", {}, {}, "text") EXCEPT !.arity = 2]
  @@ "draft" :> [D("--draft", {}, {}, "number") EXCEPT !.control = "removed"]
MCRuntimeFlags == "--rare" :> "--rare" @@ "-r" :> "--rare"
MCNumbers == "7" :> "7" @@ "07" :> "7" @@ "-1" :> "-1"
MCItems == "7,07" :> <<"7", "07">> @@ "7,7" :> <<"7", "7">>
MCInline == "--raw=-x" :> <<"--raw", "-x">> @@ "--raw=x" :> <<"--raw", "x">> @@ "--jinja=off" :> <<"--jinja", "off">>
            @@ "--layer-range=7" :> <<"--layer-range", "7">>
  @@ "--ctx-size=07" :> <<"--ctx-size", "07">>
MCLower == "--Raw" :> "--raw" @@ "--CTX-SIZE" :> "--ctx-size"
MCLongFlags == {"--raw", "--Raw", "--rare"} \cup {MCCatalog[i].flag : i \in DOMAIN MCCatalog}
               \cup UNION {MCCatalog[i].negations : i \in DOMAIN MCCatalog}
MCDashed == MCLongFlags \cup DOMAIN MCInline \cup {"-1", "-x", "-r", "--CTX-SIZE"}
            \cup UNION {MCCatalog[i].aliases : i \in DOMAIN MCCatalog}
MCTrue == {"on", "true"}
MCFalse == {"off", "false"}
MCModelWords == {<<"--model", "m">>, <<"-hf", "m">>}
MCPhrases == {<<"--model", "m">>, <<"-c", "07">>, <<"--CTX-SIZE", "-1">>, <<"--ctx-size=07">>, <<"-c">>,
  <<"--fit", "on">>, <<"--fit", "--nj">>, <<"--nj">>, <<"--jinja=off">>, <<"--props">>, <<"-ts", "7,07">>,
  <<"-ot", "7,7">>, <<"-ot", "x">>, <<"--layer-range", "7", "07">>, <<"--layer-range=7">>, <<"--host", "on">>,
  <<"--draft", "7">>, <<"--Raw">>, <<"--raw=-x">>, <<"--raw=x">>, <<"--raw", "-1">>, <<"-r", "x">>, <<"-r">>, <<"-x">>, <<"7">>}
MCGroups == {<<<<"--ctx-size", <<"7">>>>>>, <<<<"--ctx-size", <<"07">>>>>>, <<<<"--ctx-size", <<>>>>>>,
 <<<<"--no-jinja", <<>>>>>>, <<<<"--nj", <<>>>>>>, <<<<"--jinja", <<"false">>>>>>, <<<<"--draft", <<"7">>>>>>,
 <<<<"--host", <<"on">>>>>>, <<<<"--raw", <<"x">>>>>>, <<<<"--tensor-split", <<"7,07">>>>>>, <<<<"--tensor-split", <<"7,7">>>>>>, 
 <<<<"--override-tensor", <<"x">>>>, <<"--override-tensor", <<"7">>>>>>, <<<<"--fit", <<"x">>>>>>}
Ent(id, flag, value) == [id |-> id, flag |-> flag, value |-> value]
MCEntries == {Ent("ctx-size", "", Text(<<"07">>)), Ent("", "--ctx-size", Text(<<"x">>)), Ent("jinja", "", No), Ent("", "--nj", Yes), 
   Ent("", "--raw", Yes), Ent("", "--raw", No), Ent("override-tensor", "", Listed(<<"x", "7">>)), Ent("fit", "", Text(<<"7">>)), Ent("fit", "", Text(<<"on">>))}
MCRemovals == {Ent("ctx-size", "", Yes), Ent("", "-c", Yes), Ent("", "--raw", Yes)}
=============================================================================
