--------------------------- MODULE CommandLineProofs ---------------------------
(***************************************************************************)
(* The two commands that write files.  corgireg: the promises about reports,  *)
(* for any number of runs on any files.  corgireg-generate: its options and   *)
(* its destination, for any arguments, values file and interpreter.          *)
(***************************************************************************)
EXTENDS ReportWriter, GenerateCommand, SequenceTheorems, TLAPS

Answered == {"sources", "create", "write", "close", "replace", "return", "cleanup", "done"}
Writing == {"write", "close", "replace", "cleanup", "killed"}
PastOutputs == {"graph", "engine", "matching"} \cup Answered
PastSources == {"create", "write", "close", "replace", "cleanup"}

(* How far a run has come tells what it knows of its files. *)
Progress(r) ==
  /\ pc[r] \in Answered => outcome[r] = "answer"
  /\ pc[r] \in PastOutputs => task[r].output \notin task[r].query \cup {task[r].graph}
  /\ pc[r] \in PastSources => task[r].output \in Paths /\ task[r].output \notin task[r].library
  /\ pc[r] = "replace" => text[r] = "whole"
  /\ r \in temporary => pc[r] \in Writing

(* A file of a run is only found where the run put it by renaming. *)
Placed(p) ==
  entry[p] \in Runs =>
    /\ pc[entry[p]] \in Renamed /\ text[entry[p]] = "whole"
    /\ outcome[entry[p]] = "answer" /\ task[entry[p]].output = p

Inv ==
  /\ TypeOK
  /\ \A r \in Runs : Progress(r)
  /\ \A p \in Paths : Placed(p)
  /\ \A r \in Runs : pc[r] \in {"return", "done"} /\ task[r].output # Console => entry[task[r].output] \in Runs

-----------------------------------------------------------------------------
LEMMA InitInv == Init => Inv
BY TasksAssumption, FilesAssumption DEF Init, Inv, TypeOK, Places, Progress, Placed, Answered, Writing, PastOutputs, PastSources

(* A run that moves without touching a file. *)
LEMMA QuietStep ==
  ASSUME Inv, NEW r \in Runs, NEW place \in Places, Go(r, place), UNCHANGED <<task, files>>,
         outcome' \in [Runs -> {"none", "answer", "error", "timeout"}],
         \A q \in Runs \ {r} : outcome'[q] = outcome[q],
         pc[r] \notin Ended, Progress(r)',
         place # "return", place = "done" => task[r].output = Console \/ pc[r] = "return",
         pc[r] = "return" => place = "done" /\ outcome' = outcome
  PROVE  Inv'
<1>1. pc' \in [Runs -> Places] /\ pc'[r] = place /\ \A q \in Runs \ {r} : pc'[q] = pc[q]
  BY DEF Go, Inv, TypeOK
<1>2. TypeOK'
  BY <1>1 DEF Inv, TypeOK, files
<1>3. \A q \in Runs : Progress(q)'
  BY <1>1 DEF Inv, Progress, files
<1>4. \A p \in Paths : Placed(p)'
  BY <1>1 DEF Inv, Placed, files, Renamed, Ended
<1> QED
  BY <1>1, <1>2, <1>3, <1>4 DEF Inv, files

LEMMA ReadingKeeps ==
  ASSUME Inv, NEW r \in Runs, UNCHANGED task,
         ReadQuery(r) \/ CheckOutput(r) \/ LoadGraph(r) \/ StartEngine(r) \/ CheckSources(r)
  PROVE  Inv'
<1>1. Progress(r) /\ task[r] \in Tasks /\ pc[r] \in Places
  BY DEF Inv, TypeOK
<1>2. PICK place \in {"failed", "outputs", "graph", "engine", "matching", "create", "done"} :
        /\ Go(r, place) /\ UNCHANGED <<outcome, files>> /\ pc[r] \notin Ended \cup {"return"}
        /\ place = "done" => task[r].output = Console /\ pc[r] \in Answered
        /\ place \in {"graph", "engine", "matching", "create", "done"} =>
             pc[r] \in PastOutputs \/ ~ Collides(r, task[r].query \cup {task[r].graph})
        /\ place = "create" => pc[r] = "sources" /\ task[r].output # Console /\ ~ Collides(r, task[r].library)
        /\ place # "done" => place \notin {"sources", "write", "close", "replace", "cleanup"}
  <2>1. CASE ReadQuery(r)
    BY <2>1 DEF ReadQuery, Fail, Ended
  <2>2. CASE CheckOutput(r)
    BY <2>2 DEF CheckOutput, Fail, Ended
  <2>3. CASE LoadGraph(r)
    BY <2>3 DEF LoadGraph, Fail, PastOutputs, Ended
  <2>4. CASE StartEngine(r)
    BY <2>4 DEF StartEngine, PastOutputs, Ended
  <2>5. CASE CheckSources(r)
    BY <2>5 DEF CheckSources, Fail, PastOutputs, Answered, Ended
  <2> QED
    BY <2>1, <2>2, <2>3, <2>4, <2>5
<1>3. pc'[r] = place /\ r \in Runs
  BY <1>2 DEF Go, Inv, TypeOK
<1>4. Progress(r)'
  <2>1. place = "create" => outcome[r] = "answer" /\ task[r].output \in Paths /\ task[r].output \notin task[r].library
    BY <1>1, <1>2, TasksAssumption DEF Progress, Answered, Collides, SameFile
  <2>2. place = "done" => outcome[r] = "answer"
    BY <1>1, <1>2 DEF Progress
  <2>3. ~ Collides(r, task[r].query \cup {task[r].graph}) => task[r].output \notin task[r].query \cup {task[r].graph}
    BY <1>1, TasksAssumption, FilesAssumption DEF Collides, SameFile
  <2>4. r \in temporary => FALSE
    BY <1>1, <1>2 DEF Progress, Writing, ReadQuery, CheckOutput, LoadGraph, StartEngine, CheckSources
  <2> QED
    BY <1>1, <1>2, <1>3, <2>1, <2>2, <2>3, <2>4 DEF Progress, Answered, PastOutputs, PastSources, Writing, files
<1> QED
  BY <1>1, <1>2, <1>4, QuietStep DEF Places, Inv, TypeOK

LEMMA EngineKeeps ==
  ASSUME Inv, NEW r \in Runs, UNCHANGED task, EngineStep(r) \/ EngineTimesOut(r)
  PROVE  Inv'
<1>1. PICK place \in {"sources", "failed"}, answer \in {"answer", "error", "timeout"} :
        /\ pc[r] = "matching" /\ Go(r, place) /\ UNCHANGED files
        /\ outcome' = [outcome EXCEPT ![r] = answer]
        /\ place = "sources" => answer = "answer"
  BY DEF EngineStep, EngineAnswers, EngineFails, EngineTimesOut
<1>2. /\ pc'[r] = place /\ outcome'[r] = answer /\ \A q \in Runs \ {r} : outcome'[q] = outcome[q]
      /\ outcome' \in [Runs -> {"none", "answer", "error", "timeout"}]
  BY <1>1 DEF Go, Inv, TypeOK
<1>3. Progress(r)'
  BY <1>1, <1>2 DEF Inv, Progress, Answered, PastOutputs, PastSources, Writing, files
<1> QED
  BY <1>1, <1>2, <1>3, QuietStep DEF Places, Ended

(* Steps of write_report up to the renaming, and a kill at any place. *)
LEMMA WritingKeeps ==
  ASSUME Inv, NEW r \in Runs, NEW place \in {"write", "close", "replace", "cleanup", "failed", "killed"},
         Go(r, place), UNCHANGED <<task, outcome, entry>>,
         pc[r] \notin Ended, pc[r] = "return" => place = "killed" /\ text' = text,
         text' \in [Runs -> {"none", "part", "whole"}], \A q \in Runs \ {r} : text'[q] = text[q],
         temporary' \subseteq temporary \cup {r}, Progress(r)', r \in temporary' => task[r].output # Console
  PROVE  Inv'
<1>1. pc' \in [Runs -> Places] /\ pc'[r] = place /\ \A q \in Runs \ {r} : pc'[q] = pc[q]
  BY DEF Go, Inv, TypeOK, Places
<1>2. TypeOK'
  BY <1>1 DEF Inv, TypeOK
<1>3. \A q \in Runs : Progress(q)'
  BY <1>1 DEF Inv, Progress
<1>4. \A p \in Paths : Placed(p)'
  BY <1>1 DEF Inv, Placed, Ended, Renamed
<1>5. \A q \in Runs : pc'[q] \in {"return", "done"} => pc[q] \in {"return", "done"}
  BY <1>1
<1> QED
  BY <1>2, <1>3, <1>4, <1>5 DEF Inv

LEMMA ReportKeeps ==
  ASSUME Inv, NEW r \in Runs, UNCHANGED task,
         CreateTemporary(r) \/ WriteText(r) \/ CloseStream(r) \/ CleanUp(r) \/ Kill(r)
  PROVE  Inv'
<1>1. Progress(r) /\ (r \in temporary => task[r].output # Console)
  BY DEF Inv, TypeOK
<1>2. PICK place \in {"write", "close", "replace", "cleanup", "failed", "killed"} :
        /\ Go(r, place) /\ UNCHANGED <<outcome, entry>> /\ pc[r] \notin Ended
        /\ place \in {"write", "close", "replace", "cleanup"} => pc[r] \in PastSources
        /\ place = "replace" => text'[r] = "whole"
        /\ r \in temporary' => r \in temporary \/ pc[r] = "create"
        /\ r \in temporary' => place \in Writing
        /\ pc[r] = "return" => place = "killed" /\ text' = text
  <2>1. CASE CreateTemporary(r)
    BY <1>1, <2>1 DEF CreateTemporary, Fail, files, Ended, PastSources, Progress, Writing
  <2>2. CASE WriteText(r)
    BY <2>2 DEF WriteText, files, Ended, PastSources, Writing
  <2>3. CASE CloseStream(r)
    BY <2>3 DEF CloseStream, Ended, PastSources, Inv, TypeOK, Writing
  <2>4. CASE CleanUp(r)
    BY <2>4 DEF CleanUp, Ended
  <2>5. CASE Kill(r)
    BY <2>5 DEF Kill, files, Writing
  <2> QED
    BY <2>1, <2>2, <2>3, <2>4, <2>5
<1>3. /\ text' \in [Runs -> {"none", "part", "whole"}] /\ (\A q \in Runs \ {r} : text'[q] = text[q])
      /\ temporary' \subseteq temporary \cup {r}
  BY DEF CreateTemporary, WriteText, CloseStream, CleanUp, Kill, Fail, files, Inv, TypeOK
<1>4. pc'[r] = place
  BY <1>2 DEF Go, Inv, TypeOK
<1>5. Progress(r)'
  BY <1>1, <1>2, <1>4 DEF Progress, Answered, PastOutputs, PastSources
<1>6. pc[r] = "create" => task[r].output # Console
  BY <1>1, FilesAssumption DEF Progress, PastSources
<1> QED
  BY <1>1, <1>2, <1>3, <1>5, <1>6, WritingKeeps

LEMMA ReplaceKeeps == ASSUME Inv, NEW r \in Runs, UNCHANGED task, Replace(r) PROVE Inv'
<1>1. /\ Progress(r) /\ pc[r] = "replace" /\ UNCHANGED outcome
      /\ task[r].output \in Paths /\ text[r] = "whole" /\ outcome[r] = "answer" /\ task[r].output # Console
  BY FilesAssumption DEF Inv, Replace, Progress, PastSources, Answered
<1>2. CASE Go(r, "cleanup") /\ UNCHANGED files
  <2>1. pc'[r] = "cleanup"
    BY <1>2 DEF Go, Inv, TypeOK
  <2>2. Progress(r)'
    BY <1>1, <1>2, <2>1 DEF Progress, Answered, PastOutputs, PastSources, Writing, files
  <2> QED
    BY <1>1, <1>2, <2>2, QuietStep DEF Places, Ended, Inv, TypeOK
<1>3. CASE /\ entry' = [entry EXCEPT ![task[r].output] = r] /\ temporary' = temporary \ {r}
           /\ Go(r, "return") /\ UNCHANGED text
  <2>1. pc' \in [Runs -> Places] /\ pc'[r] = "return" /\ \A q \in Runs \ {r} : pc'[q] = pc[q]
    BY <1>3 DEF Go, Inv, TypeOK, Places
  <2>2. entry'[task[r].output] = r /\ \A p \in Paths \ {task[r].output} : entry'[p] = entry[p]
    BY <1>1, <1>3 DEF Inv, TypeOK
  <2>3. TypeOK'
    BY <1>1, <1>3, <2>1 DEF Inv, TypeOK
  <2>4. \A q \in Runs : Progress(q)'
    BY <1>1, <1>3, <2>1 DEF Inv, Progress, Answered, PastOutputs, PastSources, Writing
  <2>5. \A p \in Paths : Placed(p)'
    BY <1>1, <1>3, <2>1, <2>2 DEF Inv, Placed, Renamed
  <2>6. \A q \in Runs : pc'[q] \in {"return", "done"} /\ task[q].output # Console => entry'[task[q].output] \in Runs
    <3>1. \A q \in Runs : task[q].output # Console => task[q].output \in Paths
      BY TasksAssumption DEF Inv, TypeOK
    <3> QED
      BY <2>1, <2>2, <3>1 DEF Inv
  <2> QED
    BY <2>3, <2>4, <2>5, <2>6 DEF Inv
<1> QED
  BY <1>2, <1>3 DEF Replace

LEMMA ReturnKeeps == ASSUME Inv, NEW r \in Runs, UNCHANGED task, Return(r) PROVE Inv'
<1>1. Progress(r) /\ pc[r] = "return" /\ pc'[r] = "done" /\ UNCHANGED <<outcome, files>>
  BY DEF Return, Go, Inv, TypeOK
<1>2. Progress(r)'
  BY <1>1 DEF Progress, Answered, PastOutputs, PastSources, Writing, files
<1> QED
  BY <1>1, <1>2, QuietStep DEF Return, Places, Ended, Inv, TypeOK

LEMMA NextKeeps == ASSUME Inv, [Next]_vars PROVE Inv'
<1>1. CASE UNCHANGED vars
  BY <1>1 DEF vars, Inv, TypeOK, Progress, Placed
<1> QED
  BY <1>1, ReadingKeeps, EngineKeeps, ReportKeeps, ReplaceKeeps, ReturnKeeps DEF Next, Step, EngineStep

THEOREM WriterInvariant == Spec => []Inv
BY InitInv, NextKeeps, PTL DEF Spec

-----------------------------------------------------------------------------
THEOREM TypeCorrect == Spec => []TypeOK
<1>1. Inv => TypeOK
  BY DEF Inv
<1> QED
  BY WriterInvariant, <1>1, PTL

(* Whatever the interleaving and whichever runs were killed, no reader finds  *)
(* a part of a report or a report without an answer.                         *)
THEOREM WholeReports == Spec => []ReportsAreWhole
<1>1. Inv => ReportsAreWhole
  BY DEF Inv, Placed, ReportsAreWhole
<1> QED
  BY WriterInvariant, <1>1, PTL

(* The exit status of the command line and its output agree.                 *)
THEOREM TrueStatus == Spec => []StatusIsTrue
<1>1. Inv => StatusIsTrue
  <2> SUFFICES ASSUME Inv, NEW r \in Runs
               PROVE  /\ pc[r] = "failed" => \A p \in Paths : entry[p] # r
                      /\ pc[r] = "done" /\ task[r].output # Console =>
                           entry[task[r].output] \in {q \in Runs : pc[q] \in Renamed}
    BY DEF StatusIsTrue
  <2>1. task[r].output # Console => task[r].output \in Paths
    BY TasksAssumption DEF Inv, TypeOK
  <2> QED
    BY <2>1 DEF Inv, Placed, Renamed
<1> QED
  BY WriterInvariant, <1>1, PTL

(* Only a killed run leaves a temporary file. *)
THEOREM RemovedTemporaries == Spec => []TemporariesAreRemoved
<1>1. Inv => TemporariesAreRemoved
  BY DEF Inv, Progress, Writing, TemporariesAreRemoved
<1> QED
  BY WriterInvariant, <1>1, PTL

(* No run changes what it read, its definition files included.               *)
THEOREM KeptInputs == Spec => InputsAreKept
<1> DEFINE Kept ==
      \A r \in Runs : pc[r] # pc'[r] =>
        \A p \in task[r].query \cup {task[r].graph} \cup task[r].library : entry'[p] = entry[p]
<1>1. ASSUME Inv, [Next]_vars PROVE [Kept]_vars
  <2>1. CASE UNCHANGED vars
    BY <2>1
  <2>2. ASSUME NEW r \in Runs, Step(r) \/ EngineStep(r) \/ Kill(r), UNCHANGED task, ~ Replace(r)
        PROVE  UNCHANGED entry
    BY <2>2 DEF Step, EngineStep, EngineAnswers, EngineFails, EngineTimesOut, ReadQuery, CheckOutput, LoadGraph,
                StartEngine, CheckSources, CreateTemporary, WriteText, CloseStream, Return, CleanUp, Kill, Fail, files
  <2>3. ASSUME NEW r \in Runs, Replace(r), UNCHANGED task PROVE Kept
    <3>1. pc[r] = "replace" /\ \A q \in Runs \ {r} : pc'[q] = pc[q]
      BY <1>1, <2>3 DEF Replace, Go, Inv, TypeOK
    <3>2. /\ task[r].output \notin task[r].query \cup {task[r].graph} \cup task[r].library
          /\ task[r].query \cup {task[r].graph} \cup task[r].library \subseteq Paths
      BY <1>1, <3>1, TasksAssumption DEF Inv, Progress, PastOutputs, PastSources, Answered, TypeOK
    <3>3. \A p \in Paths \ {task[r].output} : entry'[p] = entry[p]
      BY <1>1, <2>3 DEF Replace, files, Inv, TypeOK
    <3> QED
      BY <3>1, <3>2, <3>3
  <2> QED
    BY <1>1, <2>1, <2>2, <2>3 DEF Next
<1>2. Inv /\ [Next]_vars => [Kept]_vars
  BY <1>1
<1> QED
  BY WriterInvariant, <1>2, PTL DEF Spec, InputsAreKept

-----------------------------------------------------------------------------
(***************************************************************************)
(* corgireg-generate.                                                        *)
(***************************************************************************)
(* t is what is left of s after k elements. *)
Rest(s, t, k) ==
  /\ k \in 0 .. Len(s) /\ t \in Seq(ToSet(s)) /\ Len(t) = Len(s) - k
  /\ \A i \in 1 .. Len(t) : t[i] = s[k + i]

(* What the first k arguments have given: of an option with a value, the last. *)
Found(option, k) == {i \in 1 .. k : call.arguments[i].option = option}
GivenIs(k) ==
  /\ DOMAIN given = {"random", "loops", "tree", "values", "output"}
  /\ given.random = (Found("--random", k) # {})
  /\ given.values = (Found("-v", k) # {})
  /\ \/ Found("--max-loops", k) = {} /\ given.loops = {}
     \/ \E i \in Found("--max-loops", k) :
          given.loops = {call.arguments[i].value} /\ \A j \in Found("--max-loops", k) : j <= i

(* The options o and the keys k are what the lines in D have set, in any order. *)
OptionsAre(o, k, D) ==
  /\ DOMAIN o = {"values", "random", "maxLoops", "maxNodes"}
  /\ k = {line.key : line \in D}
  /\ DOMAIN o.values = {line.index : line \in {line \in D : ~ IsName(line)}}
  /\ \A line \in D : ~ IsName(line) => o.values[line.index] = line.values
  /\ o.random = (\E line \in D : line.key = "mode" /\ line.random)
  /\ {o.maxLoops} = Listed(D, "max_loops", DefaultLoops)
  /\ {o.maxNodes} = Listed(D, "max_nodes", DefaultNodes)
LinesRead(k) == {call.lines[i] : i \in 1 .. k}

Reading ==
  /\ phase = "arguments" =>
       /\ \E k \in Nat : Rest(call.arguments, arguments, k) /\ GivenIs(k)
       /\ lines = call.lines /\ OptionsAre(options, seen, {})
  /\ phase = "values" =>
       /\ GivenIs(Len(call.arguments))
       /\ \E k \in Nat : Rest(call.lines, lines, k) /\ OptionsAre(options, seen, LinesRead(k)) /\ (given.values \/ k = 0)
  /\ phase \in {"library", "generate", "open", "write"} \/ destination = "new" => AsCalled

Ending ==
  /\ phase \in {"arguments", "values", "library", "generate", "open", "write", "exit"}
  /\ phase = "exit" <=> status # -1
  /\ phase \notin {"write", "exit"} => destination = "old"
  /\ phase = "write" => destination = "empty"
  /\ phase \in {"arguments", "values", "library"} => result = "none"
  /\ phase \in {"open", "write"} => result = "graph" /\ given.output
  /\ DestinationIsKept

CommandInv == call \in Calls /\ Reading /\ Ending

-----------------------------------------------------------------------------
LEMMA WholeRest ==
  ASSUME NEW s, IsList(s) PROVE Rest(s, s, 0)
<1>1. s \in Seq(ToSet(s)) /\ Len(s) \in Nat
  BY LenProperties DEF IsList
<1> QED
  BY <1>1 DEF Rest

LEMMA RestRead ==
  ASSUME NEW s, IsList(s), NEW t, NEW k \in Nat, Rest(s, t, k), t # <<>>
  PROVE  k + 1 \in 1 .. Len(s) /\ Head(t) = s[k + 1] /\ Rest(s, Tail(t), k + 1)
<1>1. t \in Seq(ToSet(s)) /\ Len(t) \in Nat /\ Len(t) # 0 /\ Len(s) \in Nat
  BY LenProperties, EmptySeq DEF Rest, IsList
<1>2. Head(t) = t[1] /\ Tail(t) \in Seq(ToSet(s)) /\ Len(Tail(t)) = Len(t) - 1 /\ \A i \in 1 .. Len(t) - 1 : Tail(t)[i] = t[i + 1]
  BY <1>1
<1>3. ASSUME NEW i \in 1 .. Len(t) - 1 PROVE Tail(t)[i] = s[(k + 1) + i]
  <2>1. i + 1 \in 1 .. Len(t) /\ k + (i + 1) = (k + 1) + i
    BY <1>1
  <2> QED
    BY <1>2, <2>1 DEF Rest
<1> QED
  BY <1>1, <1>2, <1>3 DEF Rest

LEMMA RestOver ==
  ASSUME NEW s, IsList(s), NEW k \in Nat, Rest(s, <<>>, k)
  PROVE  k = Len(s) /\ 1 .. k = DOMAIN s
<1>1. s \in Seq(ToSet(s)) /\ Len(s) \in Nat /\ Len(<<>>) = 0
  BY LenProperties DEF IsList
<1> QED
  BY <1>1, LenProperties DEF Rest

LEMMA ListedFirst ==
  ASSUME NEW D, NEW line, NEW default, \A l \in D : l.key # line.key
  PROVE  Listed(D \cup {line}, line.key, default) = {line.values[1]}
<1>1. {l \in D \cup {line} : l.key = line.key} = {line}
  OBVIOUS
<1>2. {l.values[1] : l \in {line}} = {line.values[1]} /\ {line.values[1]} # {}
  OBVIOUS
<1> QED
  BY <1>1, <1>2 DEF Listed

LEMMA ListedLater ==
  ASSUME NEW D, NEW line, NEW key, NEW default, line.key # key
  PROVE  Listed(D \cup {line}, key, default) = Listed(D, key, default)
<1>1. {l \in D \cup {line} : l.key = key} = {l \in D : l.key = key}
  OBVIOUS
<1> QED
  BY <1>1 DEF Listed

(* A line that is not rejected sets what it says and nothing else. *)
Sets(o, line, p) ==
  /\ DOMAIN p = {"values", "random", "maxLoops", "maxNodes"}
  /\ p.random = IF line.key = "mode" THEN line.random ELSE o.random
  /\ p.maxLoops = IF line.key = "max_loops" THEN line.values[1] ELSE o.maxLoops
  /\ p.maxNodes = IF line.key = "max_nodes" THEN line.values[1] ELSE o.maxNodes
  /\ p.values = IF IsName(line) THEN o.values ELSE With(o.values, line.index, line.values)

LEMMA SettingSets ==
  ASSUME NEW line, DOMAIN options = {"values", "random", "maxLoops", "maxNodes"}
  PROVE  Sets(options, line, Setting(line))
BY DEF Sets, Setting, IsName

LEMMA LineSets ==
  ASSUME NEW o, NEW k, NEW D, NEW line, NEW p, OptionsAre(o, k, D), line.random \in BOOLEAN,
         line.key \notin k, ~ IsName(line) => line.index \notin DOMAIN o.values, Sets(o, line, p)
  PROVE  OptionsAre(p, k \cup {line.key}, D \cup {line})
<1> DEFINE E == D \cup {line}
<1>1. /\ DOMAIN p = {"values", "random", "maxLoops", "maxNodes"}
      /\ p.random = IF line.key = "mode" THEN line.random ELSE o.random
      /\ p.maxLoops = IF line.key = "max_loops" THEN line.values[1] ELSE o.maxLoops
      /\ p.maxNodes = IF line.key = "max_nodes" THEN line.values[1] ELSE o.maxNodes
      /\ p.values = IF IsName(line) THEN o.values ELSE With(o.values, line.index, line.values)
  BY DEF Sets
<1>2. (\A l \in D : l.key # line.key) /\ k \cup {line.key} = {l.key : l \in E}
  BY DEF OptionsAre
<1>3. {p.maxLoops} = Listed(E, "max_loops", DefaultLoops) /\ {p.maxNodes} = Listed(E, "max_nodes", DefaultNodes)
  <2>1. \A default : Listed(E, line.key, default) = {line.values[1]}
    BY <1>2, ListedFirst
  <2>2. \A key, default : line.key # key => Listed(E, key, default) = Listed(D, key, default)
    BY ListedLater
  <2> HIDE DEF E
  <2>3. {p.maxLoops} = Listed(E, "max_loops", DefaultLoops)
    BY <1>1, <2>1, <2>2 DEF OptionsAre
  <2>4. {p.maxNodes} = Listed(E, "max_nodes", DefaultNodes)
    BY <1>1, <2>1, <2>2 DEF OptionsAre
  <2> QED
    BY <2>3, <2>4
<1>4. p.random = (\E l \in E : l.key = "mode" /\ l.random)
  <2>1. CASE line.key = "mode"
    BY <1>1, <1>2, <2>1
  <2>2. CASE line.key # "mode"
    BY <1>1, <2>2 DEF OptionsAre
  <2> QED
    BY <2>1, <2>2
<1>5. /\ DOMAIN p.values = {l.index : l \in {l \in E : ~ IsName(l)}}
      /\ \A l \in E : ~ IsName(l) => p.values[l.index] = l.values
  <2>1. CASE IsName(line)
    BY <1>1, <2>1 DEF OptionsAre
  <2>2. CASE ~ IsName(line)
    <3>1. /\ DOMAIN p.values = DOMAIN o.values \cup {line.index} /\ p.values[line.index] = line.values
          /\ \A x \in DOMAIN o.values : p.values[x] = o.values[x]
      BY <1>1, <2>2 DEF With
    <3> QED
      BY <2>2, <3>1 DEF OptionsAre
  <2> QED
    BY <2>1, <2>2
<1> QED
  BY <1>1, <1>2, <1>3, <1>4, <1>5 DEF OptionsAre

LEMMA CommandStart == CommandInit => CommandInv
<1> SUFFICES ASSUME CommandInit PROVE CommandInv
  OBVIOUS
<1>1. Rest(call.arguments, arguments, 0)
  BY CallsAssumption, WholeRest DEF CommandInit
<1>2. GivenIs(0)
  <2>1. \A option : Found(option, 0) = {}
    BY DEF Found
  <2> QED
    BY <2>1 DEF CommandInit, GivenIs, Absent
<1>3. OptionsAre(options, seen, {})
  <2>1. \A key, default : Listed({}, key, default) = {default}
    BY DEF Listed
  <2> QED
    BY <2>1 DEF CommandInit, Defaults, OptionsAre
<1>4. Ending
  BY DEF CommandInit, Ending, DestinationIsKept
<1> QED
  BY <1>1, <1>2, <1>3, <1>4 DEF CommandInit, CommandInv, Reading

(* One more argument. *)
LEMMA FoundNext ==
  ASSUME NEW k \in Nat, NEW option
  PROVE  Found(option, k + 1) = Found(option, k) \cup IF call.arguments[k + 1].option = option THEN {k + 1} ELSE {}
BY DEF Found

LEMMA ReadArgumentKeeps == CommandInv /\ ReadArgument => CommandInv'
<1> SUFFICES ASSUME CommandInv, ReadArgument PROVE CommandInv'
  OBVIOUS
<1>1. /\ phase = "arguments" /\ arguments # <<>> /\ arguments' = Tail(arguments)
      /\ UNCHANGED <<call, lines, seen, options, destination, result>>
      /\ phase' \in {"arguments", "exit"} /\ call \in Calls
  BY DEF CommandInv, ReadArgument, Error
<1>2. Ending' /\ destination = "old"
  <2>1. destination = "old" /\ status = -1
    BY <1>1 DEF CommandInv, Ending, DestinationIsKept
  <2>2. (phase' = "arguments" /\ status' = status) \/ (phase' = "exit" /\ status' \in {0, 2} /\ (status' = 0 => given' = given))
    BY <1>1 DEF ReadArgument, Error
  <2>3. result = "none"
    BY <1>1 DEF CommandInv, Ending
  <2> QED
    BY <1>1, <2>1, <2>2, <2>3 DEF Ending, DestinationIsKept
<1>3. ASSUME phase' = "arguments" PROVE \E k \in Nat : Rest(call.arguments, arguments, k)' /\ GivenIs(k)'
  <2>1. PICK k \in Nat : Rest(call.arguments, arguments, k) /\ GivenIs(k)
    BY <1>1 DEF CommandInv, Reading
  <2>2. Head(arguments) = call.arguments[k + 1] /\ Rest(call.arguments, Tail(arguments), k + 1)
    BY <1>1, <2>1, CallsAssumption, RestRead
  <2>3. GivenIs(k + 1)'
    <3> DEFINE a == Head(arguments)
    <3>1. \A option : Found(option, k + 1)' = Found(option, k) \cup IF a.option = option THEN {k + 1} ELSE {}
      BY <1>1, <2>2, FoundNext DEF Found
    <3>2. \A option : Found(option, k) \subseteq 1 .. k
      BY DEF Found
    <3>3. CASE a.option = "--random"
      BY <1>1, <1>3, <2>1, <2>2, <3>1, <3>3 DEF ReadArgument, GivenIs, Error
    <3>4. CASE a.option = "--max-loops"
      BY <1>1, <1>3, <2>1, <2>2, <3>1, <3>2, <3>4 DEF ReadArgument, GivenIs, Error
    <3>5. CASE a.option = "-v"
      BY <1>1, <1>3, <2>1, <2>2, <3>1, <3>5 DEF ReadArgument, GivenIs, Error
    <3>6. CASE a.option \notin {"--random", "--max-loops", "-v"}
      BY <1>1, <1>3, <2>1, <2>2, <3>1, <3>6 DEF ReadArgument, GivenIs, Error
    <3> QED
      BY <3>3, <3>4, <3>5, <3>6
  <2> QED
    BY <1>1, <2>2, <2>3
<1>4. phase' = "arguments" => lines' = call'.lines /\ OptionsAre(options', seen', {})
  BY <1>1 DEF CommandInv, Reading
<1> QED
  BY <1>1, <1>2, <1>3, <1>4 DEF CommandInv, Reading

LEMMA ArgumentsReadKeeps == CommandInv /\ ArgumentsRead => CommandInv'
<1> SUFFICES ASSUME CommandInv, ArgumentsRead PROVE CommandInv'
  OBVIOUS
<1>1. /\ phase = "arguments" /\ arguments = <<>>
      /\ UNCHANGED <<call, arguments, lines, given, seen, options, destination, result>>
      /\ phase' \in {"values", "exit"} /\ call \in Calls
  BY DEF CommandInv, ArgumentsRead, Error
<1>2. Ending' /\ destination = "old"
  BY <1>1 DEF CommandInv, Ending, DestinationIsKept, ArgumentsRead, Error
<1>3. GivenIs(Len(call.arguments))
  <2>1. PICK k \in Nat : Rest(call.arguments, <<>>, k) /\ GivenIs(k)
    BY <1>1 DEF CommandInv, Reading
  <2>2. k = Len(call.arguments)
    BY <1>1, <2>1, CallsAssumption, RestOver
  <2> QED
    BY <2>1, <2>2
<1>4. Rest(call.lines, lines, 0) /\ LinesRead(0) = {} /\ OptionsAre(options, seen, {})
  BY <1>1, CallsAssumption, WholeRest DEF CommandInv, Reading, LinesRead
<1>5. GivenIs(Len(call.arguments))' /\ Rest(call.lines, lines, 0)' /\ LinesRead(0)' = {}
  BY <1>1, <1>3, <1>4 DEF GivenIs, Found, LinesRead
<1> QED
  BY <1>1, <1>2, <1>4, <1>5 DEF CommandInv, Reading

LEMMA ReadLineKeeps == CommandInv /\ ReadLine => CommandInv'
<1> SUFFICES ASSUME CommandInv, ReadLine PROVE CommandInv'
  OBVIOUS
<1>1. /\ phase = "values" /\ lines # <<>> /\ lines' = Tail(lines) /\ given.values
      /\ UNCHANGED <<call, arguments, given, destination, result>>
      /\ phase' \in {"values", "exit"} /\ call \in Calls
  BY DEF CommandInv, ReadLine, Error
<1>2. Ending' /\ destination = "old"
  BY <1>1 DEF CommandInv, Ending, DestinationIsKept, ReadLine, Error
<1>3. ASSUME phase' = "values"
      PROVE  \E k \in Nat : Rest(call.lines, lines, k)' /\ OptionsAre(options', seen', LinesRead(k)')
  <2> DEFINE line == Head(lines)
  <2>1. PICK k \in Nat : Rest(call.lines, lines, k) /\ OptionsAre(options, seen, LinesRead(k))
    BY <1>1 DEF CommandInv, Reading
  <2>2. k + 1 \in 1 .. Len(call.lines) /\ line = call.lines[k + 1] /\ Rest(call.lines, Tail(lines), k + 1)
    BY <1>1, <2>1, CallsAssumption, RestRead
  <2>3. line.random \in BOOLEAN
    <3>1. call.lines \in Seq(ToSet(call.lines)) /\ \A l \in ToSet(call.lines) : l.random \in BOOLEAN
      BY <1>1, CallsAssumption DEF IsList
    <3> QED
      BY <2>2, <3>1
  <2>4. ~ Rejected(line) /\ seen' = seen \cup {line.key} /\ options' = Setting(line)
    BY <1>1, <1>3 DEF ReadLine, Error
  <2>5. line.key \notin seen /\ (~ IsName(line) => line.index \notin DOMAIN options.values)
    BY <2>4 DEF Rejected
  <2>6. Sets(options, line, options')
    BY <2>1, <2>4, SettingSets DEF OptionsAre
  <2>7. LinesRead(k + 1) = LinesRead(k) \cup {line}
    BY <2>2 DEF LinesRead
  <2>8. OptionsAre(options', seen', LinesRead(k + 1))
    BY <2>1, <2>3, <2>4, <2>5, <2>6, <2>7, LineSets
  <2>9. LinesRead(k + 1)' = LinesRead(k + 1)
    BY <1>1 DEF LinesRead
  <2> QED
    BY <1>1, <2>2, <2>8, <2>9
<1>4. GivenIs(Len(call.arguments))'
  BY <1>1 DEF CommandInv, Reading, GivenIs, Found
<1> QED
  BY <1>1, <1>2, <1>3, <1>4 DEF CommandInv, Reading

LEMMA ReadFailsKeeps == CommandInv /\ ReadFails => CommandInv'
BY DEF CommandInv, Reading, Ending, DestinationIsKept, ReadFails, Error

(* The arguments have the last word. *)
LEMMA LastFound ==
  ASSUME NEW s, s \subseteq Nat, NEW i \in s, \A j \in s : j <= i
  PROVE  Max(s) = i
<1>1. \A x \in s : (\A y \in s : x >= y) => x = i
  OBVIOUS
<1>2. \A y \in s : i >= y
  OBVIOUS
<1> QED
  BY <1>1, <1>2 DEF Max

LEMMA ValuesReadKeeps == CommandInv /\ ValuesRead => CommandInv'
<1> SUFFICES ASSUME CommandInv, ValuesRead PROVE CommandInv'
  OBVIOUS
<1>1. /\ phase = "values" /\ (given.values => lines = <<>>) /\ phase' = "library" /\ call \in Calls
      /\ UNCHANGED <<call, arguments, lines, given, seen, destination, status, result>>
  BY DEF CommandInv, ValuesRead
<1>2. Ending'
  BY <1>1 DEF CommandInv, Ending, DestinationIsKept
<1> DEFINE settings == IF Named("-v") THEN ToSet(call.lines) ELSE {}
<1>3. GivenIs(Len(call.arguments)) /\ DOMAIN call.arguments = 1 .. Len(call.arguments) /\ Len(call.arguments) \in Nat
  BY <1>1, CallsAssumption, LenProperties DEF CommandInv, Reading, IsList
<1>4. \A option : Named(option) <=> Found(option, Len(call.arguments)) # {}
  BY <1>3 DEF Named, Found, ToSet
<1>5. OptionsAre(options, seen, settings)
  <2>1. PICK k \in Nat : Rest(call.lines, lines, k) /\ OptionsAre(options, seen, LinesRead(k)) /\ (given.values \/ k = 0)
    BY <1>1 DEF CommandInv, Reading
  <2>2. LinesRead(k) = settings
    <3>1. CASE given.values
      <4>1. Rest(call.lines, <<>>, k) /\ Named("-v")
        BY <1>1, <1>3, <1>4, <2>1, <3>1 DEF GivenIs
      <4>2. 1 .. k = DOMAIN call.lines
        BY <1>1, <4>1, CallsAssumption, RestOver
      <4> QED
        BY <4>1, <4>2 DEF LinesRead, ToSet
    <3>2. CASE ~ given.values
      <4>1. ~ Named("-v") /\ k = 0
        BY <1>3, <1>4, <2>1, <3>2 DEF GivenIs
      <4> QED
        BY <4>1 DEF LinesRead
    <3> QED
      BY <3>1, <3>2
  <2> QED
    BY <2>1, <2>2
<1> HIDE DEF settings
<1>6. /\ options'.values = options.values /\ options'.maxNodes = options.maxNodes
      /\ options'.random = (options.random \/ given.random)
      /\ options'.maxLoops = IF given.loops = Absent THEN options.maxLoops ELSE CHOOSE loops \in given.loops : TRUE
  BY <1>5 DEF OptionsAre, ValuesRead
<1>7. {options'.maxLoops} = Overridden("--max-loops", {options.maxLoops})
  <2> DEFINE found == {i \in DOMAIN call.arguments : call.arguments[i].option = "--max-loops"}
  <2>1. found = Found("--max-loops", Len(call.arguments)) /\ found \subseteq Nat
    BY <1>3 DEF Found
  <2>2. CASE found = {} /\ given.loops = {}
    BY <1>6, <2>2 DEF Overridden, Absent
  <2>3. CASE \E i \in found : given.loops = {call.arguments[i].value} /\ \A j \in found : j <= i
    <3>1. PICK i \in found : given.loops = {call.arguments[i].value} /\ \A j \in found : j <= i
      BY <2>3
    <3>2. Max(found) = i
      BY <2>1, <3>1, LastFound
    <3>3. options'.maxLoops = call.arguments[i].value
      BY <1>6, <3>1 DEF Absent
    <3> QED
      BY <3>2, <3>3 DEF Overridden
  <2> QED
    BY <1>3, <2>1, <2>2, <2>3 DEF GivenIs
<1>8. AsCalled'
  <2> DEFINE indices == {line.index : line \in {line \in settings : ~ IsName(line)}}
  <2>1. DOMAIN options.values = indices /\ \A index \in indices : Values(settings, index) = {options.values[index]}
    BY <1>5 DEF OptionsAre, Values
  <2>2. options'.random <=> (Named("--random") \/ \E line \in settings : line.key = "mode" /\ line.random)
    BY <1>3, <1>4, <1>5, <1>6 DEF OptionsAre, GivenIs
  <2>3. {options'.maxLoops} = Overridden("--max-loops", Listed(settings, "max_loops", DefaultLoops))
    BY <1>5, <1>7 DEF OptionsAre
  <2>4. {options'.maxNodes} = Listed(settings, "max_nodes", DefaultNodes)
    BY <1>5, <1>6 DEF OptionsAre
  <2> QED
    BY <1>1, <1>6, <2>1, <2>2, <2>3, <2>4 DEF AsCalled, settings, Named, Overridden, Values
<1> QED
  BY <1>1, <1>2, <1>8 DEF CommandInv, Reading

(* The rest of the command changes neither options nor arguments. *)
LEMMA WritingCommandKeeps ==
  ASSUME CommandInv, LoadLibrary \/ Generate \/ Generated \/ Open \/ Write
  PROVE  CommandInv'
<1>1. /\ phase \in {"library", "generate", "open", "write"} /\ phase' \in {"generate", "open", "write", "exit"}
      /\ UNCHANGED <<call, options>> /\ AsCalled /\ call \in Calls
  BY DEF CommandInv, Reading, LoadLibrary, Generate, Generated, Open, Write, Error
<1>2. AsCalled'
  BY <1>1 DEF AsCalled, Named, Overridden, Values, Listed
<1>3. CASE LoadLibrary
  BY <1>1, <1>2, <1>3 DEF CommandInv, Reading, Ending, DestinationIsKept, LoadLibrary, Error
<1>4. CASE Generate
  BY <1>1, <1>2, <1>4 DEF CommandInv, Reading, Ending, DestinationIsKept, Generate
<1>5. CASE Generated
  BY <1>1, <1>2, <1>5 DEF CommandInv, Reading, Ending, DestinationIsKept, Generated, Error
<1>6. CASE Open
  BY <1>1, <1>2, <1>6 DEF CommandInv, Reading, Ending, DestinationIsKept, Open, Error
<1>7. CASE Write
  BY <1>1, <1>2, <1>7 DEF CommandInv, Reading, Ending, DestinationIsKept, Write
<1> QED
  BY <1>3, <1>4, <1>5, <1>6, <1>7

LEMMA CommandStandsStill == CommandInv /\ UNCHANGED commandVars => CommandInv'
<1> SUFFICES ASSUME CommandInv, UNCHANGED commandVars PROVE CommandInv'
  OBVIOUS
<1>1. UNCHANGED <<call, phase, arguments, lines, given, seen, options, result, destination, status>>
  BY DEF commandVars
<1>2. AsCalled' = AsCalled
  BY <1>1 DEF AsCalled, Named, Overridden
<1>3. \A k : GivenIs(k)' = GivenIs(k) /\ LinesRead(k)' = LinesRead(k)
  BY <1>1 DEF GivenIs, Found, LinesRead
<1>4. Ending'
  BY <1>1 DEF CommandInv, Ending, DestinationIsKept
<1>5. Reading'
  BY <1>1, <1>2, <1>3 DEF CommandInv, Reading
<1> QED
  BY <1>1, <1>4, <1>5 DEF CommandInv

(* Arguments, file and interpreter in this order, and the destination last. *)
THEOREM CommandInvariant == CommandSpec => []CommandInv
<1>1. CommandInv /\ [CommandNext]_commandVars => CommandInv'
  BY ReadArgumentKeeps, ArgumentsReadKeeps, ReadLineKeeps, ReadFailsKeeps, ValuesReadKeeps, WritingCommandKeeps,
     CommandStandsStill DEF CommandNext
<1> QED
  BY CommandStart, <1>1, PTL DEF CommandSpec

(* What generation is given is what the arguments and the file say, whatever  *)
(* their order and number.                                                   *)
THEOREM OptionsAsCalled == CommandSpec => []OptionsMeetTheCall
<1>1. CommandInv => OptionsMeetTheCall
  BY DEF CommandInv, Reading, OptionsMeetTheCall
<1> QED
  BY <1>1, CommandInvariant, PTL

(* A failure before the destination is opened leaves it alone, and the status *)
(* of the command says whether it was replaced.                              *)
THEOREM DestinationStays == CommandSpec => []DestinationIsKept
<1>1. CommandInv => DestinationIsKept
  BY DEF CommandInv, Ending
<1> QED
  BY <1>1, CommandInvariant, PTL
=============================================================================
