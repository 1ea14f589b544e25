------------------------------- MODULE Workspace ------------------------------
(***************************************************************************)
(* The folder of a benchmark run (BenchmarkWorkspace) as its model's tools *)
(* change it (_call_tool), the page that bundle_typescript builds from it  *)
(* and when finish_job accepts that page.                                  *)
(*                                                                         *)
(* Files hold texts of TextEdit.  The marker of a template is an "x"; a    *)
(* module with a "p" imports lib.ts and one with a "t" imports lib.js.     *)
(* Tools that only read (list_files, read_file, list_tasks, the checks,    *)
(* run_tests) are no steps.  A task's id is its place in the list.         *)
(***************************************************************************)
EXTENDS TextEdit

CONSTANTS
  Resolves,   \* the file each path names: resolve; paths it refuses are not there
  TsFiles,    \* names that end in .ts
  OUTPUT,     \* index.html
  Drafts,     \* texts that are written
  Edits,      \* [old, new, all, line] of edit_file
  TriedTexts, TriedEdits, \* texts and edits that replace_text is tried on
  MaxFileSize, MaxFiles, MaxTotal, \* the limits of a workspace
  MaxTasks,   \* bound: tasks
  MaxCalls    \* bound: tool calls

\* Texts and edits are of the kind that is modelled; limits are sizes.
ASSUME WorkspaceAssumption ==
  /\ Drafts \cup TriedTexts \subseteq Seq(Chars)
  /\ \A e \in Edits \cup TriedEdits : {e.old, e.new} \subseteq Seq(Chars) /\ e.line \in Nat
  /\ \A e \in Edits : e.all \in BOOLEAN
  /\ {MaxFileSize, MaxFiles, MaxTotal, MaxTasks, MaxCalls} \subseteq Nat

Paths == DOMAIN Resolves
Marker == "x"

VARIABLES
  typescript, \* the run was given bundle_typescript
  planning,   \* ... and complete_task
  tasks,      \* the status of each task
  files,      \* the text of each file
  build,      \* <<>>, or <<the template's path, fingerprint>> of the last bundle
  made,       \* history: the files that bundle came from, and the page
  finished,   \* finish_job was accepted
  calls

given == <<typescript, planning>>
WorkspaceVars == <<given, tasks, files, build, made, finished, calls>>

WorkspaceInit ==
  /\ typescript \in BOOLEAN /\ planning \in BOOLEAN
  /\ tasks \in {[i \in 1..n |-> "open"] : n \in 0..1} \* seed_tasks
  /\ files = <<>> /\ build = <<>> /\ made = <<>> /\ finished = FALSE /\ calls = 0

Entries == DOMAIN files
\* _entries, and its total.
Total(contents) == SumFunctionOnSet([f \in DOMAIN contents |-> Len(contents[f])], DOMAIN contents)
Stored(name, text) == [f \in Entries \cup {name} |-> IF f = name THEN text ELSE files[f]]

\* write: a file within its limit, in a workspace within its own.
Writable(name, text) ==
  /\ Len(text) <= MaxFileSize
  /\ name \in Entries \/ Cardinality(Entries) < MaxFiles
  /\ Total(Stored(name, text)) <= MaxTotal

Calls == ~finished /\ calls < MaxCalls /\ calls' = calls + 1

WriteFile(path, text) ==
  /\ Calls /\ Writable(Resolves[path], text)
  /\ files' = Stored(Resolves[path], text)
  /\ UNCHANGED <<given, tasks, build, made, finished>>

\* edit: the file is read, replace_text changes it and write takes the result.
EditFile(path, edit) ==
  LET name == Resolves[path]
      after == ReplaceText(files[name], edit.old, edit.new, edit.all, edit.line)
  IN  /\ Calls /\ name \in Entries
      /\ after # Refused /\ Writable(name, after[1])
      /\ files' = Stored(name, after[1])
      /\ UNCHANGED <<given, tasks, build, made, finished>>

DeleteFile(path) ==
  /\ Calls /\ Resolves[path] \in Entries
  /\ files' = [f \in Entries \ {Resolves[path]} |-> files[f]]
  /\ UNCHANGED <<given, tasks, build, made, finished>>

----------------------------------------------------------------------------
(* The task list                                                           *)

Tasked(list) == tasks' = list /\ UNCHANGED <<given, files, build, made, finished>>
CreateTask == /\ Calls /\ planning /\ Len(tasks) < MaxTasks
              /\ Tasked(Append(tasks, "open"))
CompleteTask(i) == /\ Calls /\ planning /\ tasks[i] # "deleted"
                   /\ Tasked([tasks EXCEPT ![i] = "done"])
DeleteTask(i) == /\ Calls /\ planning /\ tasks[i] # "done"
                 /\ Tasked([tasks EXCEPT ![i] = "deleted"])

----------------------------------------------------------------------------
(* bundle_typescript                                                       *)

\* esbuild: the entry and the modules it imports, which have to be there.
Imports(entry) ==
  {f \in {"lib.ts", "lib.js"} : Contains(files[entry], IF f = "lib.ts" THEN "p" ELSE "t")}
Imported(entry, f) == IF f \in Imports(entry) \ {entry} THEN files[f] ELSE <<>>
Script(entry) == files[entry] \o Imported(entry, "lib.ts") \o Imported(entry, "lib.js")

\* fingerprint, of the TypeScript, the template and the page: each file's text
\* or that it is missing.  The template is looked up as it was spelled.
Missing == <<"missing">>
Fingerprint(template, contents) ==
  [f \in (TsFiles \cap DOMAIN contents) \cup {template, OUTPUT} |->
     IF f \in DOMAIN contents THEN contents[f] ELSE Missing]

Bundle(entry, template) ==
  LET e == Resolves[entry]
      t == Resolves[template]
      places == Occurrences(files[t], <<Marker>>)
      page == Replaced(files[t], places, Script(e))
  IN  /\ Calls /\ typescript
      /\ e \in TsFiles \cap Entries /\ t \in Entries
      /\ Len(places) = 1 /\ Imports(e) \subseteq Entries
      /\ Writable(OUTPUT, page)
      /\ files' = Stored(OUTPUT, page)
      /\ build' = <<template, Fingerprint(template, files')>>
      /\ made' = <<[f \in ({e, t} \cup Imports(e)) \ {OUTPUT} |-> files[f]], page>>
      /\ UNCHANGED <<given, tasks, finished>>

\* A variant: any bundle will do.
UnbuiltEver == TsFiles \cap Entries = {} \/ build = <<>>

\* _unbuilt_reason
Unbuilt ==
  \/ TsFiles \cap Entries = {}
  \/ build = <<>>
  \/ build # <<>> /\ Fingerprint(build[1], files) # build[2]

FinishJob ==
  /\ Calls /\ ~(planning /\ \E i \in DOMAIN tasks : tasks[i] = "open")
  /\ ~(typescript /\ Unbuilt)
  /\ finished' = TRUE
  /\ UNCHANGED <<given, tasks, files, build, made>>

WorkspaceNext ==
  \/ \E path \in Paths : \/ \E text \in Drafts : WriteFile(path, text)
                         \/ \E edit \in Edits : EditFile(path, edit)
                         \/ DeleteFile(path)
  \/ \E entry, template \in Paths : Bundle(entry, template)
  \/ CreateTask \/ \E i \in DOMAIN tasks : CompleteTask(i) \/ DeleteTask(i)
  \/ FinishJob

WorkspaceSpec == WorkspaceInit /\ [][WorkspaceNext]_WorkspaceVars

----------------------------------------------------------------------------
(* Properties                                                              *)

WorkspaceTypeOK ==
  /\ Entries \subseteq {Resolves[p] : p \in Paths} \cup {OUTPUT}
  /\ calls \in 0..MaxCalls /\ finished \in BOOLEAN
  /\ tasks \in Seq({"open", "done", "deleted"})
  /\ \A f \in Entries : files[f] \in Seq(Chars)

\* No tool takes the workspace past its limits, however the sizes were reached.
LimitsKept ==
  /\ \A f \in Entries : Len(files[f]) <= MaxFileSize
  /\ Cardinality(Entries) <= MaxFiles /\ Total(files) <= MaxTotal

\* A page that finish_job accepted is the one that was built, and each of some
\* files it was built from is as it was then.
AcceptedAsBuilt(F) ==
  finished /\ typescript =>
    /\ made # <<>> /\ OUTPUT \in Entries /\ files[OUTPUT] = made[2]
    /\ \A f \in DOMAIN made[1] \cap F : f \in Entries /\ files[f] = made[1][f]

\* replace_text changes only the place that was meant.
EditsSound ==
  \A text \in TriedTexts, e \in TriedEdits : EditsOnePlace(text, e.old, e.new, e.line)

\* That holds for the TypeScript, and for a template that was named plainly;
\* and an edit changes only the place it was meant for.
WorkspaceSound ==
  /\ WorkspaceTypeOK /\ LimitsKept
  /\ AcceptedAsBuilt(TsFiles \cup (IF build = <<>> THEN {} ELSE {build[1]}))
  /\ EditsSound
=============================================================================
