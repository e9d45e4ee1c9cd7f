------------------------------ MODULE CommandLine ------------------------------
(***************************************************************************)
(* How the runtime reads the command line it passes on to runc: whether it *)
(* is a create command and where the bundle is.  The runtime looks at      *)
(* every argument alike; runc knows which part of the line an argument is. *)
(*                                                                         *)
(* An argument has leading dashes, a name and, if it contains "=", what    *)
(* follows that.  The field part is what only runc knows.                  *)
(***************************************************************************)
EXTENDS Naturals, Sequences, FiniteSetsExt

Arguments ==
  [part : {"option", "value", "command", "id"},
   dashes : Nat, name : STRING, eq : BOOLEAN, val : STRING]

Plain(part, name) ==
  [part |-> part, dashes |-> 0, name |-> name, eq |-> FALSE, val |-> ""]
Flag(dashes, name) == [Plain("option", name) EXCEPT !.dashes = dashes]
FlagWith(dashes, name, val) ==
  [Flag(dashes, name) EXCEPT !.eq = TRUE, !.val = val]

(* The outcomes of parseBundle besides a directory that was given.         *)
Cwd      == "the working directory"
Panicked == "index out of range"

(* Mutant: the command is the first argument that is not an option.        *)
FirstIsCreate(args) ==
  LET words == {i \in DOMAIN args : args[i].dashes = 0}
  IN  words # {} /\ args[Min(words)].name = "create"

hasCreateCommand(args) ==
  \E i \in DOMAIN args : args[i].dashes = 0 /\ ~args[i].eq /\ args[i].name = "create"

(* Any number of dashes, none included.                                    *)
isBundleFlag(arg) == arg.name \in {"b", "bundle"}

Directory(dir) == IF dir = "" THEN Cwd ELSE dir

(* Mutant: the value is always the argument that follows.                  *)
parseBundleNext(args) ==
  LET flags == {i \in DOMAIN args : isBundleFlag(args[i])}
  IN  IF flags = {} THEN Cwd
      ELSE IF Min(flags) = Len(args) THEN Panicked
      ELSE Directory(args[Min(flags) + 1].name)

(* The first flag counts; a last argument without a value is one past the  *)
(* end of the slice.                                                       *)
parseBundle(args) ==
  LET flags == {i \in DOMAIN args : isBundleFlag(args[i])}
      first == Min(flags)
  IN  IF flags = {} THEN Cwd
      ELSE IF args[first].eq THEN Directory(args[first].val)
      ELSE IF first = Len(args) THEN Panicked
      ELSE Directory(args[first + 1].name)

------------------------------------------------------------------------------
(***************************************************************************)
(* runc's side: runc [global options] command [options] id.                *)
(***************************************************************************)
Parts(line, part) == {i \in DOMAIN line : line[i].part = part}

BundleOptions(line) ==
  {i \in Parts(line, "option") : line[i].name \in {"b", "bundle"}}

(* The lines runc accepts: a command; options, and nothing else, with      *)
(* dashes; the value of an option behind "=" or in the next argument; the  *)
(* bundle given once at most, and not as a switch.                         *)
RuncLine(line) ==
  /\ \E c \in DOMAIN line : Parts(line, "command") = {c}
  /\ \A i \in DOMAIN line :
       /\ i \in Parts(line, "option") <=> line[i].dashes > 0
       /\ line[i].eq => i \in Parts(line, "option")
  /\ \A i \in Parts(line, "value") : i - 1 \in Parts(line, "option") /\ ~line[i - 1].eq
  /\ \A i \in BundleOptions(line) : line[i].eq \/ i + 1 \in Parts(line, "value")
  /\ \A i, j \in BundleOptions(line) : i = j

Command(line) == line[CHOOSE c \in DOMAIN line : line[c].part = "command"].name

(* The directory runc reads config.json from.                              *)
Bundle(line) ==
  IF BundleOptions(line) = {} THEN Cwd
  ELSE LET i == CHOOSE o \in BundleOptions(line) : TRUE
       IN  Directory(IF line[i].eq THEN line[i].val ELSE line[i + 1].name)

(* Words that are not the command, and mean something else to runc.        *)
OtherWords(line) ==
  {line[i].name : i \in Parts(line, "value") \cup Parts(line, "id")}
==============================================================================
