------------------------------- MODULE MCRequest -------------------------------
(***************************************************************************)
(* Every environment of up to MaxEnv relevant entries, and every command   *)
(* line with up to three options in which a value or the id is spelled     *)
(* like the command or the flag, in each place it may have.                *)
(***************************************************************************)
EXTENDS Request

CONSTANT MaxEnv     \* bound on the relevant entries of an environment

Values == {Word(w) : w \in Words \ {"list"}}
          \cup {List(s, j) : s \in SUBSET Num \ {{}}, j \in BOOLEAN}

Entries == {Entry(n, v) : n \in VisiblePrefixed, v \in Values}
           \cup {Malformed(VisibleDevices), Entry("PATH", Word("all"))}

MCEnvs == UNION {[1..k -> Entries] : k \in 0..MaxEnv}

------------------------------------------------------------------------------
(* An option with its value, written in either way.                        *)
Written(dashes, name, val) ==
  {<<FlagWith(dashes, name, val)>>, <<Flag(dashes, name), Plain("value", val)>>}

None == {<<>>}
Spellings == {"dir", "create", "b"}

Globals  == None \cup {<<Flag(2, "debug")>> \o o : o \in UNION {Written(2, "root", v) : v \in Spellings}}
Bundles  == None \cup UNION {Written(d, n, "/bundle") : n \in {"b", "bundle"}, d \in 1..2}
PidFiles == None \cup UNION {Written(2, "pid-file", v) : v \in Spellings}

Orders(A, B) == {a \o b : a \in A, b \in B} \cup {b \o a : a \in A, b \in B}

MCLines ==
  {g \o <<Plain("command", c)>> \o o \o <<Plain("id", id)>> :
     g \in Globals, c \in {"create", "delete", "start"},
     o \in Orders(PidFiles, Bundles), id \in {"c1", "create", "bundle"}}
==============================================================================
