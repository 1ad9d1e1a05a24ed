---------------------------- MODULE GenerateCommand ----------------------------
(***************************************************************************)
(* corgireg-generate: arguments, then the values file, then the interpreter,  *)
(* then the destination (Cli/generate.cpp and IRGenerationOptions::read).    *)
(* Of the interpreter it only matters here that it returns a graph or throws. *)
(*                                                                          *)
(* An argument has an option and its value; a line of the values file has a  *)
(* key, its index when the key is a number (0 otherwise), whether its value   *)
(* can be read, and the value: numbers, or whether the mode is random.  A key *)
(* is a spelling: "1" and "01" differ and have the same index.               *)
(***************************************************************************)
EXTENDS Integers, Sequences, SequencesExt, FiniteSets, FiniteSetsExt

CONSTANTS Calls,          \* [arguments, lines]: the command line and its values file
          DefaultLoops,   \* 10 in the code
          DefaultNodes    \* 100000

IsList(s) == s \in Seq(ToSet(s))
ASSUME CallsAssumption ==
  \A c \in Calls : IsList(c.arguments) /\ IsList(c.lines) /\ \A line \in ToSet(c.lines) : line.random \in BOOLEAN

VARIABLES call,         \* what the command was called with
          phase,        \* arguments, values, library, generate, open, write, then exit
          arguments,    \* that are still to be read
          lines,        \* of the values file, likewise
          given,        \* what the arguments said so far
          seen,         \* the keys of the values file so far
          options,      \* what the file said so far
          result,       \* of the interpreter: none yet, a graph, or an error
          destination,  \* the content of the file -o names, if it does: old, empty, partial or new
          status        \* of the process: -1 while it runs

commandVars == <<call, phase, arguments, lines, given, seen, options, result, destination, status>>

StandardOutput == "-"
Absent == {}   \* an option that was not given; a given one is a singleton
Defaults == [values |-> <<>>, random |-> FALSE, maxLoops |-> DefaultLoops, maxNodes |-> DefaultNodes]

CommandInit ==
  /\ call \in Calls
  /\ phase = "arguments"
  /\ arguments = call.arguments /\ lines = call.lines
  /\ given = [random |-> FALSE, loops |-> Absent, tree |-> Absent, values |-> FALSE, output |-> FALSE]
  /\ seen = {} /\ options = Defaults
  /\ result = "none" /\ destination = "old" /\ status = -1

Error == phase' = "exit" /\ status' = 2

-----------------------------------------------------------------------------
(* The loop over argv; the last one of an option counts. *)
ReadArgument ==
  /\ phase = "arguments" /\ arguments # <<>>
  /\ arguments' = Tail(arguments)
  /\ LET argument == Head(arguments) IN
     \/ /\ argument.option = "--random"
        /\ given' = [given EXCEPT !.random = TRUE] /\ UNCHANGED <<phase, status>>
     \/ /\ argument.option = "--max-loops"
        /\ given' = [given EXCEPT !.loops = {argument.value}] /\ UNCHANGED <<phase, status>>
     \/ /\ argument.option = "-r"
        /\ given' = [given EXCEPT !.tree = {argument.value}] /\ UNCHANGED <<phase, status>>
     \/ /\ argument.option = "-v"
        /\ given' = [given EXCEPT !.values = TRUE] /\ UNCHANGED <<phase, status>>
     \/ /\ argument.option = "-o"
        /\ given' = [given EXCEPT !.output = argument.value # StandardOutput] /\ UNCHANGED <<phase, status>>
     \/ /\ argument.option = "--help"
        /\ phase' = "exit" /\ status' = 0 /\ UNCHANGED given
     \/ /\ argument.option = "unknown"
        /\ Error /\ UNCHANGED given
  /\ UNCHANGED <<call, lines, seen, options, destination, result>>

ArgumentsRead ==
  /\ phase = "arguments" /\ arguments = <<>>
  /\ IF given.tree = Absent THEN Error ELSE phase' = "values" /\ UNCHANGED status
  /\ UNCHANGED <<call, arguments, lines, given, seen, options, destination, result>>

IsName(line) == line.key \in {"mode", "max_loops", "max_nodes"}

(* A line is an error when its key was there before, when its value cannot be *)
(* read, and when it gives values for no quantifier or for one that has some. *)
Rejected(line) ==
  \/ line.key \in seen
  \/ ~ line.valid
  \/ ~ IsName(line) /\ (line.index = 0 \/ line.index \in DOMAIN options.values)

With(function, key, value) ==
  [k \in DOMAIN function \cup {key} |-> IF k = key THEN value ELSE function[k]]
Setting(line) ==
  CASE line.key = "mode"      -> [options EXCEPT !.random = line.random]
    [] line.key = "max_loops" -> [options EXCEPT !.maxLoops = line.values[1]]
    [] line.key = "max_nodes" -> [options EXCEPT !.maxNodes = line.values[1]]
    [] OTHER -> [options EXCEPT !.values = With(@, line.index, line.values)]

(* One line of IRGenerationOptions::read. *)
ReadLine ==
  /\ phase = "values" /\ given.values /\ lines # <<>>
  /\ lines' = Tail(lines)
  /\ IF Rejected(Head(lines))
     THEN Error /\ UNCHANGED <<seen, options>>
     ELSE /\ seen' = seen \cup {Head(lines).key}
          /\ options' = Setting(Head(lines))
          /\ UNCHANGED <<phase, status>>
  /\ UNCHANGED <<call, arguments, given, destination, result>>

(* The file cannot be opened, or a read of it fails. *)
ReadFails ==
  /\ phase = "values" /\ given.values
  /\ Error
  /\ UNCHANGED <<call, arguments, lines, given, seen, options, destination, result>>

\* Mutant of ValuesRead: --max-loops yields to the file.
ValuesReadMutant ==
  /\ phase = "values" /\ (given.values => lines = <<>>)
  /\ phase' = "library"
  /\ options' = [options EXCEPT !.random = @ \/ given.random,
                                !.maxLoops = IF given.loops = Absent \/ @ # DefaultLoops THEN @
                                             ELSE CHOOSE loops \in given.loops : TRUE]
  /\ UNCHANGED <<call, arguments, lines, given, seen, destination, status, result>>

(* The arguments override the file. *)
ValuesRead ==
  /\ phase = "values" /\ (given.values => lines = <<>>)
  /\ phase' = "library"
  /\ options' = [options EXCEPT !.random = @ \/ given.random,
                                !.maxLoops = IF given.loops = Absent THEN @
                                             ELSE CHOOSE loops \in given.loops : TRUE]
  /\ UNCHANGED <<call, arguments, lines, given, seen, destination, status, result>>

(* NodeLibrary::load. *)
LoadLibrary ==
  /\ phase = "library"
  /\ \/ Error
     \/ phase' = "generate" /\ UNCHANGED status
  /\ UNCHANGED <<call, arguments, lines, given, seen, options, result, destination>>

(* PGInterpreterIR::interpret, with the tree of -r and the options. *)
Generate ==
  /\ phase = "generate" /\ result = "none"
  /\ result' \in {"graph", "error"}
  /\ UNCHANGED <<call, phase, arguments, lines, given, seen, options, destination, status>>

\* Mutant of Generated: the destination is opened whatever comes out.
GeneratedMutant ==
  /\ phase = "generate" /\ result # "none"
  /\ IF given.output THEN phase' = "open" /\ UNCHANGED status
     ELSE phase' = "exit" /\ status' = IF result = "graph" THEN 0 ELSE 2
  /\ UNCHANGED <<call, arguments, lines, given, seen, options, result, destination>>

(* The definitions name the operations of the graph, or there is none that    *)
(* can: then the graph is not written, like one that was not generated.      *)
Generated ==
  /\ phase = "generate" /\ result # "none"
  /\ \/ Error
     \/ result = "graph" /\ given.output /\ phase' = "open" /\ UNCHANGED status
     \/ result = "graph" /\ ~ given.output /\ phase' = "exit" /\ status' = 0
  /\ UNCHANGED <<call, arguments, lines, given, seen, options, result, destination>>

(* The file is opened for writing, written and closed in place; each of them  *)
(* may fail, and what the close finds is the status.                          *)
Open ==
  /\ phase = "open"
  /\ \/ destination' = "empty" /\ phase' = "write" /\ UNCHANGED status
     \/ Error /\ UNCHANGED destination
  /\ UNCHANGED <<call, arguments, lines, given, seen, options, result>>

Write ==
  /\ phase = "write"
  /\ destination' \in {"partial", "new"}
  /\ phase' = "exit" /\ status' = IF destination' = "new" THEN 0 ELSE 2
  /\ UNCHANGED <<call, arguments, lines, given, seen, options, result>>

CommandNext ==
  \/ ReadArgument \/ ArgumentsRead \/ ReadLine \/ ReadFails \/ ValuesRead \/ LoadLibrary
  \/ Generate \/ Generated \/ Open \/ Write

CommandSpec == CommandInit /\ [][CommandNext]_commandVars

-----------------------------------------------------------------------------
(* What the generator is given depends on which lines the file has and not   *)
(* on their order ("Duplicate keys (including `1` and `01`) ... are rejected", *)
(* doc/ir-generation.md), and the arguments override the file "independent of *)
(* option order".                                                            *)
Values(settings, index) == {line.values : line \in {line \in settings : ~ IsName(line) /\ line.index = index}}
Listed(settings, key, default) ==
  LET found == {line.values[1] : line \in {line \in settings : line.key = key}}
  IN  IF found = {} THEN {default} ELSE found
Overridden(option, values) ==
  LET found == {i \in DOMAIN call.arguments : call.arguments[i].option = option}
  IN  IF found = {} THEN values ELSE {call.arguments[Max(found)].value}
Named(option) == \E a \in ToSet(call.arguments) : a.option = option
AsCalled ==
  LET settings == IF Named("-v") THEN ToSet(call.lines) ELSE {}
      indices  == {line.index : line \in {line \in settings : ~ IsName(line)}}
  IN  /\ DOMAIN options.values = indices
      /\ \A index \in indices : Values(settings, index) = {options.values[index]}
      /\ options.random <=> (Named("--random") \/ \E line \in settings : line.key = "mode" /\ line.random)
      /\ {options.maxLoops} = Overridden("--max-loops", Listed(settings, "max_loops", DefaultLoops))
      /\ {options.maxNodes} = Listed(settings, "max_nodes", DefaultNodes)
OptionsMeetTheCall == phase \in {"generate", "open", "write"} \/ destination = "new" => AsCalled

(* "The executable generates and validates before opening its output file"   *)
(* (doc/ir-generation.md): a call that fails before it writes leaves the file  *)
(* of an earlier call as it was, and 0 means that it has been replaced.  Every *)
(* way out of the command, and no other step, sets a status.                 *)
DestinationIsKept ==
  /\ phase = "exit" <=> status # -1
  /\ destination # "old" => result = "graph" /\ given.output
  /\ status = 0 /\ result = "graph" /\ given.output => destination = "new"
  /\ status = 2 => destination \in {"old", "partial"}
=============================================================================
