------------------------------ MODULE ReportWriter ------------------------------
(***************************************************************************)
(* Runs of the command line: each reads its inputs, has the native engine    *)
(* search with a timeout, and writes its report next to the output before it *)
(* renames it.  Several runs share the files; a run can be killed.           *)
(***************************************************************************)
EXTENDS Naturals, FiniteSets

CONSTANTS Runs,       \* a run is also the file that it makes
          Paths, Originals, NoFile,
          Console,    \* the output "-"
          Tasks       \* [query, graph, library, output]: the arguments of a run

ASSUME TasksAssumption ==
  Tasks \subseteq [query : SUBSET Paths, graph : Paths, library : SUBSET Paths, output : Paths \cup {Console}]
ASSUME FilesAssumption == NoFile \notin Originals \cup Runs /\ Console \notin Paths /\ Originals \cap Runs = {}

VARIABLES task,       \* query is the regex file, if there is one
          pc,         \* where each run is
          outcome,    \* of the engine
          entry,      \* [path -> file]
          temporary,  \* the runs whose file is there under its temporary name
          text        \* of the file a run makes: "none", "part" or "whole"

vars == <<task, pc, outcome, entry, temporary, text>>
files == <<entry, temporary, text>>

Places == {"query", "outputs", "graph", "engine", "matching", "sources", "create", "write", "close", "replace",
           "return", "cleanup", "done", "failed", "killed"}
Ended == {"done", "failed", "killed"}

Init ==
  /\ task \in [Runs -> Tasks]
  /\ pc = [r \in Runs |-> "query"] /\ outcome = [r \in Runs |-> "none"]
  /\ entry \in [Paths -> Originals \cup {NoFile}]
  /\ temporary = {} /\ text = [r \in Runs |-> "none"]

Go(r, place) == pc' = [pc EXCEPT ![r] = place]
(* ValueError, OSError and the timeout: exit status 2. *)
Fail(r) == Go(r, "failed") /\ UNCHANGED <<outcome, files>>

Missing(paths) == \E p \in paths : entry[p] = NoFile

SameFile(path, source) == path = source \/ (entry[path] # NoFile /\ entry[path] = entry[source])
(* check_output *)
Collides(r, sources) == task[r].output # Console /\ \E s \in sources : SameFile(task[r].output, s)

(* The query is read first; it may be empty. *)
ReadQuery(r) ==
  /\ pc[r] = "query"
  /\ \/ Fail(r)
     \/ ~ Missing(task[r].query) /\ Go(r, "outputs") /\ UNCHANGED <<outcome, files>>

CheckOutput(r) ==
  /\ pc[r] = "outputs"
  /\ IF Collides(r, task[r].query \cup {task[r].graph}) THEN Fail(r) ELSE Go(r, "graph") /\ UNCHANGED <<outcome, files>>

(* The importer of the format, encode_request and find_engine. *)
LoadGraph(r) ==
  /\ pc[r] = "graph"
  /\ \/ Fail(r)
     \/ ~ Missing({task[r].graph}) /\ Go(r, "engine") /\ UNCHANGED <<outcome, files>>

StartEngine(r) == pc[r] = "engine" /\ Go(r, "matching") /\ UNCHANGED <<outcome, files>>

(* The engine answers, fails, or has not answered in time and is killed.     *)
EngineAnswers(r) ==
  /\ pc[r] = "matching" /\ ~ Missing(task[r].library)
  /\ outcome' = [outcome EXCEPT ![r] = "answer"] /\ Go(r, "sources") /\ UNCHANGED files
EngineFails(r) ==
  /\ pc[r] = "matching"
  /\ outcome' = [outcome EXCEPT ![r] = "error"] /\ Go(r, "failed") /\ UNCHANGED files
\* Mutant of EngineTimesOut: subprocess.run without a timeout.
EngineTimesOutMutant(r) == FALSE

EngineTimesOut(r) ==
  /\ pc[r] = "matching"
  /\ outcome' = [outcome EXCEPT ![r] = "timeout"] /\ Go(r, "failed") /\ UNCHANGED files

\* Mutant of CheckSources: the definition files are not compared.
CheckSourcesMutant(r) == pc[r] = "sources" /\ Go(r, "create") /\ UNCHANGED <<outcome, files>>

(* The answer names the files of the definitions; "-" writes to stdout.      *)
CheckSources(r) ==
  /\ pc[r] = "sources"
  /\ CASE Collides(r, task[r].library) -> Fail(r)
       [] task[r].output = Console -> Go(r, "done") /\ UNCHANGED <<outcome, files>>
       [] OTHER -> Go(r, "create") /\ UNCHANGED <<outcome, files>>

-----------------------------------------------------------------------------
(* write_report: an exception after the temporary file is there removes it.  *)
CreateTemporary(r) ==
  /\ pc[r] = "create"
  /\ \/ Fail(r)
     \/ /\ temporary' = temporary \cup {r} /\ text' = [text EXCEPT ![r] = "part"]
        /\ Go(r, "write") /\ UNCHANGED <<outcome, entry>>

\* Mutant of WriteText: the file is renamed before it is closed.
WriteTextMutant(r) == pc[r] = "write" /\ Go(r, "replace") /\ UNCHANGED <<outcome, files>>

WriteText(r) ==
  /\ pc[r] = "write"
  /\ Go(r, "close") \/ Go(r, "cleanup")
  /\ UNCHANGED <<outcome, files>>

(* The with block closes the stream, which writes what is still buffered.    *)
CloseStream(r) ==
  /\ pc[r] = "close"
  /\ \/ Go(r, "cleanup") /\ UNCHANGED text
     \/ Go(r, "replace") /\ text' = [text EXCEPT ![r] = "whole"]
  /\ UNCHANGED <<outcome, entry, temporary>>

\* Mutant of Replace: the finally branch removes the file without a look.
ReplaceMutant(r) ==
  /\ pc[r] = "replace"
  /\ \/ Go(r, "cleanup") /\ UNCHANGED files
     \/ /\ entry' = [entry EXCEPT ![task[r].output] = r] /\ temporary' = temporary \ {r}
        /\ Go(r, "failed") /\ UNCHANGED text
  /\ UNCHANGED outcome

Replace(r) ==
  /\ pc[r] = "replace"
  /\ \/ Go(r, "cleanup") /\ UNCHANGED files
     \/ /\ entry' = [entry EXCEPT ![task[r].output] = r] /\ temporary' = temporary \ {r}
        /\ Go(r, "return") /\ UNCHANGED text
  /\ UNCHANGED outcome

(* After the rename: the finally branch finds no temporary file, and the run *)
(* returns 0.                                                                *)
Return(r) == pc[r] = "return" /\ Go(r, "done") /\ UNCHANGED <<outcome, files>>

\* Mutant of CleanUp: there is no finally.
CleanUpMutant(r) == pc[r] = "cleanup" /\ Go(r, "failed") /\ UNCHANGED <<outcome, files>>

CleanUp(r) ==
  /\ pc[r] = "cleanup" /\ temporary' = temporary \ {r}
  /\ Go(r, "failed") /\ UNCHANGED <<outcome, entry, text>>

EngineStep(r) == EngineAnswers(r) \/ EngineFails(r)
Step(r) ==
  \/ ReadQuery(r) \/ CheckOutput(r) \/ LoadGraph(r) \/ StartEngine(r) \/ EngineTimesOut(r)
  \/ CheckSources(r) \/ CreateTemporary(r) \/ WriteText(r) \/ CloseStream(r) \/ Replace(r)
  \/ Return(r) \/ CleanUp(r)

(* The process is killed; its files stay as they are. *)
Kill(r) == pc[r] \notin Ended /\ Go(r, "killed") /\ UNCHANGED <<outcome, files>>

Next == (\E r \in Runs : Step(r) \/ EngineStep(r) \/ Kill(r)) /\ UNCHANGED task

Spec == Init /\ [][Next]_vars

-----------------------------------------------------------------------------
TypeOK ==
  /\ task \in [Runs -> Tasks] /\ pc \in [Runs -> Places]
  /\ outcome \in [Runs -> {"none", "answer", "error", "timeout"}]
  /\ entry \in [Paths -> Originals \cup Runs \cup {NoFile}]
  /\ temporary \subseteq {r \in Runs : task[r].output # Console} /\ text \in [Runs -> {"none", "part", "whole"}]

(* "Output files are replaced atomically only after success"                *)
(* (doc/match-report-json.md): whoever opens a report, at whatever moment and *)
(* after any run was killed, finds all of it, the result of an answer.       *)
ReportsAreWhole ==
  \A p \in Paths : entry[p] \in Runs =>
    text[entry[p]] = "whole" /\ outcome[entry[p]] = "answer" /\ task[entry[p]].output = p

(* The exit status tells what became of the output: a run that failed left    *)
(* what was there, one that succeeded leaves its report or that of another    *)
(* run that renamed one, and may have been killed before it returned.        *)
Renamed == {"return", "done", "killed"}
StatusIsTrue ==
  \A r \in Runs :
    /\ pc[r] = "failed" => \A p \in Paths : entry[p] # r
    /\ pc[r] = "done" /\ task[r].output # Console =>
         entry[task[r].output] \in {q \in Runs : pc[q] \in Renamed}

(* Only a run that is killed leaves its temporary file behind (removing it    *)
(* never fails here).                                                        *)
TemporariesAreRemoved == \A r \in Runs : pc[r] \in {"done", "failed"} => r \notin temporary

(* "Output must not overwrite an input file", "Output cannot overwrite a      *)
(* loaded definition file" (doc/node-library.md): a run never changes a path  *)
(* that it reads, also when the paths change while it runs.                  *)
InputsAreKept ==
  [][\A r \in Runs : pc[r] # pc'[r] =>
       \A p \in task[r].query \cup {task[r].graph} \cup task[r].library : entry'[p] = entry[p]]_vars

(* A run that has not ended can always take its next step: it never waits    *)
(* for the engine, whose answer is replaced by a timeout, nor for another run *)
(* or for what a killed one left behind.  No step leads back, so it ends.     *)
NoRunWaits == \A r \in Runs : pc[r] \notin Ended => ENABLED (Step(r) /\ UNCHANGED task)
=============================================================================
