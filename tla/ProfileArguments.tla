-------------------------- MODULE ProfileArguments --------------------------
(***************************************************************************)
(* The launch arguments of a model profile (domain/profile_arguments.py,   *)
(* domain/model_profile.py, domain/argument_catalog.py and the merge of    *)
(* assistant/tools/profiles.py): reading a llama-server command, migrating *)
(* the legacy flat fields, changing some arguments, and the options that   *)
(* the result writes to the preset and to the command line.                *)
(*                                                                         *)
(* Texts are opaque.  What the code asks of a text (does it start with a   *)
(* dash, is it a number, what are its items) is a table given as a         *)
(* constant.  A value is <<"yes">>, <<"no">>, <<"text", words>> or         *)
(* <<"items", texts>>; an option is <<name, words>>, bare without words.   *)
(*                                                                         *)
(* The inputs are built one element at a time: `command' is a pasted       *)
(* command, `legacy' the options a version 1 configuration emitted, and    *)
(* `current', `changes' and `removals' are the arguments of one update.    *)
(***************************************************************************)
EXTENDS Sequences, SequencesExt, FiniteSets, Integers

CONSTANTS
  Catalog,       \* argument id -> its definition
  RuntimeFlags,  \* spelling the runtime advertises -> the long flag to store
  Numbers,       \* text of a number -> its canonical text
  Items,         \* text with commas -> its items
  Inline,        \* token with "=" -> <<spelling, value>>
  Lower,         \* spelling with capitals -> lower case
  Dashed,        \* tokens that start with a dash
  LongFlags,     \* the spellings that start with two dashes
  TrueTexts, FalseTexts,  \* texts that mean true and false
  UnsafeTexts,   \* texts with control characters or shell syntax
  ModelWords,    \* how a command begins: its model
  Phrases,       \* what follows: an option, with its words or too few or too many
  LegacyGroups, Entries, Removals,  \* the elements of the other inputs
  MaxPhrases, MaxGroups, MaxEntries

Flags(d) == {d.flag} \cup d.aliases \cup d.negations

(* _consistent: no two arguments of the catalog share a spelling. *)
ASSUME CatalogAssumption ==
  \A i, j \in DOMAIN Catalog : i # j => Flags(Catalog[i]) \cap Flags(Catalog[j]) = {}

(* A field of a version 1 configuration is a sequence of options. *)
ASSUME LegacyAssumption ==
  \A g \in LegacyGroups : Len(g) \in Nat /\ g = [i \in 1..Len(g) |-> <<g[i][1], g[i][2]>>]

(* A number is stored in a form that reads as itself, and no text means both. *)
ASSUME TextsAssumption ==
  /\ \A t \in DOMAIN Numbers : Numbers[t] \in DOMAIN Numbers /\ Numbers[Numbers[t]] = Numbers[t]
  /\ TrueTexts \cap FalseTexts = {}

ASSUME BoundsAssumption == {MaxPhrases, MaxGroups, MaxEntries} \subseteq Nat

VARIABLES command, legacy, current, changes, removals
ArgumentVars == <<command, legacy, current, changes, removals>>

Yes == <<"yes">>
No == <<"no">>
Text(words) == <<"text", words>>
Listed(texts) == <<"items", texts>>

(* The table lookups, each the identity outside its table. *)
ItemsOf(t) == IF t \in DOMAIN Items THEN Items[t] ELSE <<t>>
Joined(texts) == IF Len(texts) = 1 THEN texts[1]
                 ELSE CHOOSE t \in DOMAIN Items : Items[t] = texts
LowerCase(s) == IF s \in DOMAIN Lower THEN Lower[s] ELSE s
Spelling(word) == IF word \in DOMAIN Inline THEN Inline[word][1] ELSE word
Negative(word) == word \in Dashed /\ word \in DOMAIN Numbers

ByFlag == [flag \in UNION {Flags(Catalog[id]) : id \in DOMAIN Catalog} |->
             CHOOSE id \in DOMAIN Catalog : flag \in Flags(Catalog[id])]
Match(flag) == {ByFlag[f] : f \in {flag} \cap DOMAIN ByFlag}
NameOf(flag) == IF flag \in DOMAIN ByFlag THEN ByFlag[flag] ELSE flag
(* A variant: a spelling that negates is read as the flag itself. *)
NeverNegated(id, flag) == FALSE

Negated(id, flag) == flag \in Catalog[id].negations
Editable(id) == Catalog[id].control = "editable"

(* An argument: catalogued when `id' is in the catalog, raw when it is "". *)
Typed(id, value) == [id |-> id, flag |-> Catalog[id].flag, value |-> value, origin |-> ""]
Raw(flag, value, origin) == [id |-> "", flag |-> flag, value |-> value, origin |-> origin]

-----------------------------------------------------------------------------
(* Coercion.  The result is a set, empty when the value is refused. *)
Boolean(v) == {b \in {Yes, No} :
  \/ v = b
  \/ v[1] = "text" /\ v[2][1] \in (IF b = Yes THEN TrueTexts ELSE FalseTexts)}

Number(d, t) == IF t \in d.allowed THEN {t}
                ELSE {n \in {Numbers[x] : x \in {t} \cap DOMAIN Numbers} : n \notin d.outside}

Elements(d, v) ==
  CASE v[1] = "items" -> v[2]
    [] v[1] = "text" -> IF d.repeat THEN v[2] ELSE ItemsOf(v[2][1])
    [] OTHER -> <<>>

Element(d, t) == IF d.item = "number" THEN {Numbers[x] : x \in {t} \cap DOMAIN Numbers}
                 ELSE {x \in {t} : t # "" /\ (d.repeat \/ t \notin DOMAIN Items)}

ListValue(d, v) ==
  LET elements == Elements(d, v) IN
  IF DOMAIN elements = {} \/ \E i \in DOMAIN elements : Element(d, elements[i]) = {} THEN {}
  ELSE {Listed([i \in DOMAIN elements |-> CHOOSE x \in Element(d, elements[i]) : TRUE])}

Coerced(d, v) ==
  IF d.type = "boolean" THEN Boolean(v)
  ELSE IF d.type = "list" THEN ListValue(d, v)
  ELSE IF v[1] # "text" THEN {}
  ELSE IF d.type = "number" THEN {Text(<<n>>) : n \in Number(d, v[2][1])}
  ELSE {x \in {v} : d.type = "enum" => v[2][1] \in d.allowed}

-----------------------------------------------------------------------------
(* Emission: the options of an argument, in order. *)
EmittedTyped(d, v) ==
  CASE d.type = "boolean" -> IF v = Yes THEN <<<<d.flag, <<>>>>>>
                             ELSE IF d.negation # "" THEN <<<<d.negation, <<>>>>>> ELSE <<>>
    [] d.type = "list" -> IF d.repeat THEN [i \in DOMAIN v[2] |-> <<d.flag, <<v[2][i]>>>>]
                          ELSE <<<<d.flag, <<Joined(v[2])>>>>>>
    [] OTHER -> <<<<d.flag, v[2]>>>>

Emitted(a) ==
  IF a.id # "" THEN EmittedTyped(Catalog[a.id], a.value)
  ELSE <<<<a.flag, IF a.value = Yes THEN <<>> ELSE a.value[2]>>>>

EmittedAll(arguments) == FlattenSeq([i \in DOMAIN arguments |-> Emitted(arguments[i])])

PresetValue(o) == IF o[2] = <<>> THEN <<"true">> ELSE o[2]
Preset(options) == [i \in DOMAIN options |-> <<options[i][1], PresetValue(options[i])>>]
LaunchVector(options) == FlattenSeq([i \in DOMAIN options |-> <<options[i][1]>> \o options[i][2]])

-----------------------------------------------------------------------------
(* Validation: the errors that keep a profile from being saved. *)
Identity(a) == IF a.id # "" THEN a.id ELSE NameOf(a.flag)

RawErrors(a) ==
  {e \in {"unsafe-flag", "unsafe-text"} :
     \/ e = "unsafe-flag" /\ a.flag \notin LongFlags
     \/ e = "unsafe-text" /\ a.value # Yes /\ a.value[2][1] \in UnsafeTexts}

ControlErrors(id, acknowledged) ==
  {e \in {"managed-flag", "unconfirmed-security"} :
     \/ e = "managed-flag" /\ Catalog[id].control \in {"managed", "informational"}
     \/ /\ e = "unconfirmed-security"
        /\ Catalog[id].control \notin {"managed", "informational"}
        /\ Catalog[id].confirm /\ id \notin acknowledged}

ErrorsOf(a, acknowledged) ==
  (IF a.id = "" THEN RawErrors(a)
   ELSE IF Coerced(Catalog[a.id], a.value) = {} THEN {"invalid-value"} ELSE {})
  \cup (IF Identity(a) \in DOMAIN Catalog THEN ControlErrors(Identity(a), acknowledged) ELSE {})

Errors(arguments, acknowledged) ==
  (UNION {ErrorsOf(arguments[i], acknowledged) : i \in DOMAIN arguments})
  \cup {e \in {"duplicate-flag"} : \E i, j \in DOMAIN arguments :
          i < j /\ Identity(arguments[i]) = Identity(arguments[j])}

-----------------------------------------------------------------------------
(* A pasted command, read token by token. *)
Refused == [ok |-> FALSE, at |-> 0, model |-> <<>>, repo |-> <<>>, arguments |-> <<>>]
Start == [ok |-> TRUE, at |-> 1, model |-> <<>>, repo |-> <<>>, arguments |-> <<>>]

InlineValue(word) == IF word \in DOMAIN Inline THEN <<Inline[word][2]>> ELSE <<>>

RawValueFollows(tokens, at) ==
  /\ InlineValue(tokens[at]) = <<>> /\ at < Len(tokens)
  /\ tokens[at + 1] \notin Dashed \/ Negative(tokens[at + 1])

TakeRaw(tokens, s) ==
  LET word == tokens[s.at]
      spelling == Spelling(word)
      known == {spelling, LowerCase(spelling)} \cap DOMAIN RuntimeFlags
      flag == IF spelling \in known THEN RuntimeFlags[spelling]
              ELSE IF known # {} THEN RuntimeFlags[LowerCase(spelling)]
              ELSE LowerCase(spelling)
      follows == RawValueFollows(tokens, s.at)
      value == IF follows THEN Text(<<tokens[s.at + 1]>>)
               ELSE IF InlineValue(word) # <<>> THEN Text(InlineValue(word)) ELSE Yes
  IN IF known = {} /\ spelling \notin LongFlags THEN Refused
     ELSE [s EXCEPT !.at = @ + (IF follows THEN 2 ELSE 1),
                    !.arguments = Append(@, Raw(flag, value,
                       IF known = {} THEN "catalog-mismatch" ELSE "runtime"))]

(* The words an option with a value takes, none when there are too few. *)
ValueWords(tokens, at, arity) ==
  IF InlineValue(tokens[at]) # <<>> THEN (IF arity = 1 THEN InlineValue(tokens[at]) ELSE <<>>)
  ELSE IF at + arity <= Len(tokens) THEN SubSeq(tokens, at + 1, at + arity) ELSE <<>>

(* One more value of an argument: the first, the next of a list, or one too many. *)
Store(s, id, value) ==
  LET d == Catalog[id]
      positions == {i \in DOMAIN s.arguments : s.arguments[i].id = id}
      p == CHOOSE i \in positions : TRUE
      merged == IF d.repeat /\ value[1] = "text"
                THEN Listed((IF positions = {} THEN <<>> ELSE s.arguments[p].value[2]) \o value[2])
                ELSE value
  IN IF Coerced(d, merged) = {} \/ (positions # {} /\ ~d.repeat) THEN Refused
     ELSE LET stored == Typed(id, CHOOSE v \in Coerced(d, merged) : TRUE) IN
          [s EXCEPT !.arguments = IF positions = {} THEN Append(@, stored)
                                  ELSE [@ EXCEPT ![p] = stored]]

TakeBoolean(tokens, s, id) ==
  LET word == tokens[s.at]
      enabled == IF InlineValue(word) = <<>> THEN {Yes}
                 ELSE Boolean(Text(InlineValue(word)))
      value == IF (enabled = {Yes}) # Negated(id, Spelling(word)) THEN Yes ELSE No
      next == [s EXCEPT !.at = @ + 1]
  IN IF enabled = {} THEN Refused ELSE IF Editable(id) THEN Store(next, id, value) ELSE next

TakeValue(tokens, s, id) ==
  LET words == ValueWords(tokens, s.at, Catalog[id].arity)
      used == IF InlineValue(tokens[s.at]) # <<>> THEN 1 ELSE 1 + Catalog[id].arity
      next == [s EXCEPT !.at = @ + used]
  IN IF words = <<>> \/ (id = "model" /\ s.model # <<>>) THEN Refused
     ELSE IF id = "model" THEN [next EXCEPT !.model = words]
     ELSE IF id = "hf-repo" THEN [next EXCEPT !.repo = words]
     ELSE IF Editable(id) THEN Store(next, id, Text(words)) ELSE next

Take(tokens, s) ==
  LET exact == Match(Spelling(tokens[s.at]))
      found == IF exact # {} THEN exact ELSE Match(LowerCase(Spelling(tokens[s.at])))
      id == CHOOSE x \in found : TRUE
  IN IF ~s.ok \/ s.at > Len(tokens) THEN s
     ELSE IF tokens[s.at] \notin Dashed THEN Refused
     ELSE IF found = {} THEN TakeRaw(tokens, s)
     ELSE IF Catalog[id].type = "boolean" THEN TakeBoolean(tokens, s, id)
     ELSE TakeValue(tokens, s, id)

Parse(tokens) ==
  LET after[n \in 0..Len(tokens)] == IF n = 0 THEN Start ELSE Take(tokens, after[n - 1])
      parsed == after[Len(tokens)]
  IN IF parsed.ok /\ parsed.model = <<>> /\ parsed.repo = <<>> THEN Refused ELSE parsed

-----------------------------------------------------------------------------
(* Legacy options become catalog arguments only when nothing changes. *)
Candidate(id, group) ==
  LET first == group[1] IN
  IF Catalog[id].type = "boolean"
  THEN IF first[2] # <<>> THEN {} ELSE {IF Negated(id, first[1]) THEN No ELSE Yes}
  ELSE Coerced(Catalog[id],
         IF Catalog[id].repeat
         THEN Listed([i \in DOMAIN group |-> IF group[i][2] = <<>> THEN "True" ELSE group[i][2][1]])
         ELSE IF first[2] = <<>> THEN Yes ELSE Text(first[2]))

(* A variant: any value the catalog accepts replaces the legacy option. *)
SameOptionsUnchecked(id, v, group) == TRUE

SameOptions(id, v, group) == Preset(Emitted(Typed(id, v))) = Preset(group)

RawOption(o, origin) == Raw(o[1], IF o[2] = <<>> THEN Yes ELSE Text(o[2]), origin)

Migrated(group) ==
  LET matches == Match(group[1][1])
      id == CHOOSE x \in matches : TRUE
      exact == {v \in Candidate(id, group) : SameOptions(id, v, group)}
      kept(origin) == [i \in DOMAIN group |-> RawOption(group[i], origin)]
  IN IF matches = {} THEN kept("catalog-mismatch")
     ELSE IF Catalog[id].control = "removed" THEN kept("deprecated")
     ELSE IF ~Editable(id) \/ exact = {} THEN kept("catalog-mismatch")
     ELSE <<Typed(id, CHOOSE v \in exact : TRUE)>>

MigrateLegacy(groups) == FlattenSeq([i \in DOMAIN groups |-> Migrated(groups[i])])

-----------------------------------------------------------------------------
(* Changing some arguments.  An entry names its argument by id or by flag. *)
EntryOf(a) == [id |-> a.id, flag |-> IF a.id = "" THEN a.flag ELSE "", value |-> a.value]
Key(e) == IF e.id # "" THEN e.id ELSE NameOf(e.flag)
Keys(entries) == [i \in DOMAIN entries |-> Key(entries[i])]

FirstOf(keys, i) == \A j \in 1..(i - 1) : keys[j] # keys[i]
LastOf(entries, keys, key) ==
  entries[CHOOSE i \in DOMAIN keys : keys[i] = key /\ \A j \in DOMAIN keys : keys[j] = key => j <= i]

(* Those elements of a sequence that are in a set. *)
Only(s, S) == FlattenSeq([i \in DOMAIN s |-> IF s[i] \in S THEN <<s[i]>> ELSE <<>>])

(* The entries, each replaced by its last update, then the other updates. *)
Merged(entries, keys, updates, updated) ==
  LET added == Only([i \in DOMAIN updates |-> i],
                    {i \in DOMAIN updates : updated[i] \notin Range(keys) /\ FirstOf(updated, i)})
  IN [i \in DOMAIN entries |-> IF keys[i] \in Range(updated) /\ FirstOf(keys, i)
                               THEN LastOf(updates, updated, keys[i]) ELSE entries[i]]
     \o [k \in DOMAIN added |-> LastOf(updates, updated, updated[added[k]])]
MergedBy(entries, updates) == Merged(entries, Keys(entries), updates, Keys(updates))

Merge(entries, updates, removed) ==
  MergedBy(Only(entries, {e \in Range(entries) : Key(e) \notin {Key(r) : r \in removed}}), updates)

(* build_arguments: the arguments of the entries, none when one is refused. *)
BuiltOne(e) == IF e.id = "" THEN {Raw(e.flag, IF e.value = No THEN Text(<<"false">>) ELSE e.value, "custom")}
               ELSE IF e.id \notin DOMAIN Catalog THEN {}
               ELSE {Typed(e.id, v) : v \in Coerced(Catalog[e.id], e.value)}
Builds(entries) == \A i \in DOMAIN entries : BuiltOne(entries[i]) # {}
Built(entries) == [i \in DOMAIN entries |-> CHOOSE a \in BuiltOne(entries[i]) : TRUE]

-----------------------------------------------------------------------------
Empty == /\ legacy = <<>> /\ current = <<>> /\ changes = <<>> /\ removals = {}

ArgumentsInit == /\ command \in {<<m>> : m \in ModelWords} \cup {<<>>}
                 /\ Empty

(* The next words of a pasted command. *)
TypesPhrase == /\ command # <<>> /\ Len(command) <= MaxPhrases
               /\ \E p \in Phrases : command' = Append(command, p)
               /\ UNCHANGED <<legacy, current, changes, removals>>

(* The next field of a version 1 configuration. *)
AddsLegacy == /\ command = <<>> /\ current = <<>> /\ Len(legacy) < MaxGroups
              /\ \E g \in LegacyGroups : legacy' = Append(legacy, g)
              /\ UNCHANGED <<command, current, changes, removals>>

(* The next argument of a profile that can be saved. *)
AddsArgument ==
  /\ command = <<>> /\ legacy = <<>> /\ changes = <<>> /\ removals = {}
  /\ Len(current) < MaxEntries
  /\ \E e \in Entries :
       /\ BuiltOne(e) # {}
       /\ Errors(Built(Append(current, e)), DOMAIN Catalog) = {}
       /\ current' = Append(current, e)
  /\ UNCHANGED <<command, legacy, changes, removals>>

(* The next change or removal of an update of that profile. *)
AddsChange == /\ current # <<>> /\ Len(changes) < MaxEntries
              /\ \E e \in Entries : changes' = Append(changes, e)
              /\ UNCHANGED <<command, legacy, current, removals>>

AddsRemoval == /\ current # <<>>
               /\ \E r \in Removals \ removals : removals' = removals \cup {r}
               /\ UNCHANGED <<command, legacy, current, changes>>

ArgumentsNext == TypesPhrase \/ AddsLegacy \/ AddsArgument \/ AddsChange \/ AddsRemoval

ArgumentsSpec == ArgumentsInit /\ [][ArgumentsNext]_ArgumentVars

-----------------------------------------------------------------------------
ArgumentsTypeOK ==
  /\ Len(command) <= MaxPhrases + 1 /\ Len(legacy) <= MaxGroups
  /\ Len(current) <= MaxEntries /\ Len(changes) <= MaxEntries
  /\ \A i \in DOMAIN command : command[i] \in (IF i = 1 THEN ModelWords ELSE Phrases)
  /\ \A i \in DOMAIN legacy : legacy[i] \in LegacyGroups
  /\ \A i \in DOMAIN current : current[i] \in Entries
  /\ \A i \in DOMAIN changes : changes[i] \in Entries
  /\ removals \subseteq Removals

(* A raw value that starts with a dash, given as --flag=-x, is exported as *)
(* two words, and the second is read as an option.                         *)
ReadsAsOption(a) == a.id = "" /\ a.value # Yes
                    /\ a.value[2][1] \in Dashed /\ ~Negative(a.value[2][1])

SamePreset(again, options) == again.ok /\ Preset(EmittedAll(again.arguments)) = Preset(options)
Reimported(options) == SamePreset(Parse(<<"--model", "m">> \o LaunchVector(options)), options)
Stable(parsed) ==
  (/\ parsed.ok /\ Errors(parsed.arguments, DOMAIN Catalog) = {}
   /\ \A i \in DOMAIN parsed.arguments : ~ReadsAsOption(parsed.arguments[i]))
  => Reimported(EmittedAll(parsed.arguments))

(* A command that can be saved as a profile can be exported and imported   *)
(* again: the second import is accepted and yields the same preset, value  *)
(* by value and in the same order.                                         *)
ImportIsStable == command # <<>> => Stable(Parse(FlattenSeq(command)))

(* Migrating a version 1 configuration changes, drops and reorders no      *)
(* option of the preset.                                                   *)
MigrationKeepsOptions ==
  legacy # <<>> => Preset(EmittedAll(MigrateLegacy(legacy))) = Preset(FlattenSeq(legacy))

OthersKept(before, after, updated, named) ==
  LET others(arguments) == Only(arguments, {a \in Range(arguments) : Identity(a) \notin named})
  IN /\ EmittedAll(others(after)) = EmittedAll(others(before))
     /\ \A k \in Range(updated) :
          /\ Cardinality({i \in DOMAIN after : Identity(after[i]) = k}) = 1
          /\ \A i \in DOMAIN after : Identity(after[i]) = k =>
               {after[i]} = BuiltOne(LastOf(changes, updated, k))
     /\ \A i \in DOMAIN after : Identity(after[i]) \in named => Identity(after[i]) \in Range(updated)
AcceptedKeeps(before, merged, updated) ==
  Builds(merged) =>
    OthersKept(before, Built(merged), updated, Range(updated) \cup {Key(r) : r \in removals})
UpdateKeeps(before) ==
  AcceptedKeeps(before, Merge([i \in DOMAIN before |-> EntryOf(before[i])], changes, removals),
                Keys(changes))

(* An update that is accepted leaves the arguments it does not name as and *)
(* where they were, applies the last change of each argument it names once *)
(* and keeps nothing that was removed.                                     *)
MergeKeepsOthers == current # <<>> => UpdateKeeps(Built(current))

(* A profile keeps the arguments that nobody changed through a migration   *)
(* and an update.                                                          *)
ArgumentsKept == ArgumentsTypeOK /\ MigrationKeepsOptions /\ MergeKeepsOthers
=============================================================================
