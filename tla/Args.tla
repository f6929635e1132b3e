-------------------------------- MODULE Args --------------------------------
(***************************************************************************)
(* The command line of goshare: reorderArgs moves flags, with what it      *)
(* takes for their values, before the positional arguments; the standard   *)
(* flag package then parses the result, up to the first argument that is   *)
(* no flag; and the command runs with what was parsed.  reorderArgs does   *)
(* not know which flags take a value, and the flag package does not know   *)
(* what was moved.                                                         *)
(*                                                                         *)
(* An argument is told from another by its kind alone.                     *)
(***************************************************************************)
EXTENDS Integers, Sequences, FiniteSets

CONSTANTS
  StrFlags,     \* flags that take a string: --root, --http, --output
  IntFlags,     \* flags that take a number: --concurrency, --port
  Switches,     \* flags that take nothing: --no-compress
  Attached,     \* flags written with their values: --root=D, --port=1
  Sets,         \* the flags each command knows, with the variables they set
  Words,        \* hosts, paths, directories
  Negatives,    \* -5, which isBareValue tells from a flag
  Numerals,     \* words and negatives that are whole numbers
  Dash,         \* -
  DashDash,     \* --
  Directories,  \* the words and attached values that name a directory
  Blank,        \* those that are the empty string: --output=
  MaxArgs       \* bound: length of the command line

Valued   == StrFlags \cup IntFlags
Complete == Switches \cup Attached
Flags    == Valued \cup Complete
Dashed   == Flags \cup Negatives \cup {Dash, DashDash}
Argument == Words \cup Dashed

ASSUME ArgsAssumption ==
  /\ Words \cap Dashed = {}
  /\ Flags \cap (Negatives \cup {Dash, DashDash}) = {}
  /\ Valued \cap Complete = {}
  /\ Numerals \subseteq Words \cup Negatives
  /\ Dash # DashDash /\ Dash \notin Negatives
  /\ \A c \in {"serve", "pull", "list"} : DOMAIN Sets[c] \subseteq Flags
  /\ MaxArgs \in Nat

CommandLines == UNION { [1..n -> Argument] : n \in 0..MaxArgs }

VARIABLES
  cmd,         \* "serve", "pull" or "list"
  args,        \* os.Args[2:]
  i,           \* the loop of reorderArgs
  flags,       \* what it moves to the front
  positional,  \* what it leaves
  rest,        \* what FlagSet.Parse has not consumed
  opts,        \* the flags set so far: pairs of a flag and its value
  pc,
  outcome      \* what the process then does

vars == <<cmd, args, i, flags, positional, rest, opts, pc, outcome>>

Exit(n) == [do |-> "exit", status |-> n]

Init ==
  /\ cmd \in {"serve", "pull", "list"}
  /\ args \in CommandLines
  /\ i = 1 /\ flags = <<>> /\ positional = <<>>
  /\ rest = <<>> /\ opts = <<>>
  /\ pc = "reorder" /\ outcome = Exit(0)

-----------------------------------------------------------------------------
(* reorderArgs. *)
isBareValue(a) == a \in Negatives

LooksLikeFlag(a) == a \in Dashed /\ ~ isBareValue(a) /\ a # DashDash

ValueFollowsAny == i < Len(args)       \* Mutant

ValueFollows == i < Len(args) /\ args[i + 1] \notin Dashed

AtDashDash ==
  /\ i <= Len(args) /\ args[i] = DashDash
  /\ positional' = positional \o SubSeq(args, i, Len(args))
  /\ i' = Len(args) + 1
  /\ UNCHANGED flags

FlagTwice ==                           \* Mutant
  /\ i <= Len(args) /\ LooksLikeFlag(args[i]) /\ ValueFollows
  /\ flags' = flags \o << args[i], args[i + 1] >>
  /\ i' = i + 1
  /\ UNCHANGED positional

FlagAndValue ==
  /\ i <= Len(args) /\ LooksLikeFlag(args[i]) /\ ValueFollows
  /\ flags' = flags \o << args[i], args[i + 1] >>
  /\ i' = i + 2
  /\ UNCHANGED positional

FlagAlone ==
  /\ i <= Len(args) /\ LooksLikeFlag(args[i]) /\ ~ ValueFollows
  /\ flags' = Append(flags, args[i])
  /\ i' = i + 1
  /\ UNCHANGED positional

Positional ==
  /\ i <= Len(args) /\ args[i] # DashDash /\ ~ LooksLikeFlag(args[i])
  /\ positional' = Append(positional, args[i])
  /\ i' = i + 1
  /\ UNCHANGED flags

Reorder ==
  /\ pc = "reorder"
  /\ AtDashDash \/ FlagAndValue \/ FlagAlone \/ Positional
  /\ UNCHANGED <<cmd, args, rest, opts, pc, outcome>>

PositionalFirst == positional \o flags      \* Mutant

Result == flags \o positional

Reordered ==
  /\ pc = "reorder" /\ i > Len(args)
  /\ rest' = Result
  /\ pc' = "parse"
  /\ UNCHANGED <<cmd, args, i, flags, positional, opts, outcome>>

-----------------------------------------------------------------------------
(* FlagSet.Parse, with ExitOnError, on the flags of the command.  An        *)
(* attached value of the wrong type stands among the undefined flags; -h    *)
(* and --help are left out.                                                 *)
Undefined == Flags \ DOMAIN Sets[cmd]

Stops == rest = <<>> \/ rest[1] \in Words \cup {Dash}

Valid(f, v) == f \in StrFlags \/ v \in Numerals

HasValue == Len(rest) > 1 /\ Valid(rest[1], rest[2])

SetComplete ==
  /\ rest[1] \in Complete \ Undefined
  /\ opts' = Append(opts, << rest[1], rest[1] >>)
  /\ rest' = Tail(rest)
  /\ UNCHANGED <<pc, outcome>>

SetValued ==
  /\ rest[1] \in Valued \ Undefined /\ HasValue
  /\ opts' = Append(opts, << rest[1], rest[2] >>)
  /\ rest' = SubSeq(rest, 3, Len(rest))
  /\ UNCHANGED <<pc, outcome>>

ParseFails ==
  /\ \/ rest[1] \in Valued /\ ~ HasValue
     \/ rest[1] \in Negatives \cup Undefined
  /\ pc' = "done" /\ outcome' = Exit(2)
  /\ UNCHANGED <<rest, opts>>

EndOfFlags ==
  /\ rest[1] = DashDash
  /\ rest' = Tail(rest) /\ pc' = "dispatch"
  /\ UNCHANGED <<opts, outcome>>

Parse ==
  /\ pc = "parse"
  /\ IF Stops THEN pc' = "dispatch" /\ UNCHANGED <<rest, opts, outcome>>
              ELSE SetComplete \/ SetValued \/ ParseFails \/ EndOfFlags
  /\ UNCHANGED <<cmd, args, i, flags, positional>>

-----------------------------------------------------------------------------
(* main's switch. *)
InOrder(S) == [ k \in 1..Cardinality(S) |->
                  CHOOSE j \in S : Cardinality({ h \in S : h < j }) = k - 1 ]

At(seq, S) == [ k \in DOMAIN InOrder(S) |-> seq[InOrder(S)[k]] ]

(* What was given for a variable, under any of its flags: --root adds to a  *)
(* slice, the other flags overwrite each other.                             *)
Given(settings, variable) ==
  LET mine == At(settings, { k \in 1..Len(settings) :
                               Sets[cmd][settings[k][1]] = variable })
  IN  [ k \in DOMAIN mine |-> mine[k][2] ]

Default == "default"

Latest(seq) == IF seq = <<>> THEN Default ELSE seq[Len(seq)]

(* Every variable but the roots: addresses, numbers, switches, output.      *)
Scalars == { Sets[cmd][f] : f \in DOMAIN Sets[cmd] } \ {"rootDirs"}

Config(settings) == [ variable \in Scalars |-> Latest(Given(settings, variable)) ]

Serve(settings) ==
  LET roots == Given(settings, "rootDirs") IN
    CASE roots = <<>> -> [do |-> "serve cwd", config |-> Config(settings)]
      [] roots # <<>> /\ (\A k \in DOMAIN roots : roots[k] \in Directories) ->
           [do |-> "serve", config |-> Config(settings), roots |-> roots]
      [] OTHER -> Exit(1)

(* Without an output directory the copy is named after the path.            *)
Output(given, path) ==
  IF given \in Blank \cup {Default} THEN << "base of", path >> ELSE given

Transfer(settings, words) ==
  IF Len(words) < 2 THEN Exit(1)
  ELSE [do |-> cmd, host |-> words[1], path |-> words[2],
        config |-> [ variable \in Scalars |->
                       IF variable = "output"
                       THEN Output(Config(settings)[variable], words[2])
                       ELSE Config(settings)[variable] ]]

Command(settings, words) ==
  IF cmd = "serve" THEN Serve(settings) ELSE Transfer(settings, words)

Dispatch ==
  /\ pc = "dispatch"
  /\ outcome' = Command(opts, rest)
  /\ pc' = "done"
  /\ UNCHANGED <<cmd, args, i, flags, positional, rest, opts>>

Next == Reorder \/ Reordered \/ Parse \/ Dispatch

Spec == Init /\ [][Next]_vars
-----------------------------------------------------------------------------
TypeOK ==
  /\ cmd \in {"serve", "pull", "list"}
  /\ args \in Seq(Argument) /\ i \in 1..Len(args) + 1
  /\ flags \in Seq(Argument) /\ positional \in Seq(Argument)
  /\ rest \in Seq(Argument)
  /\ opts \in Seq(Flags \X Argument)
  /\ pc \in {"reorder", "parse", "dispatch", "done"}
  /\ outcome.do \in {"exit", "serve", "serve cwd", "pull", "list"}

Times(a, s) == Cardinality({ k \in 1..Len(s) : s[k] = a })

(* reorderArgs neither drops an argument nor repeats one.                   *)
NothingLost ==
  pc = "reorder" =>
    \A a \in Argument :
      Times(a, Result) + Times(a, SubSeq(args, i, Len(args))) = Times(a, args)

(* A word right after a complete flag looks like its value.                 *)
Stray ==
  \E k \in 1..Len(args) - 1 : args[k] \in Complete /\ args[k + 1] \in Words

(* The command lines that mean what they say: a flag that takes a value is  *)
(* followed by one without a dash, another by none, the command has it, and *)
(* there is neither "-" nor "--" nor a negative number.                     *)
Plain ==
  /\ \A k \in 1..Len(args) :
       /\ args[k] \notin Negatives \cup {Dash, DashDash} \cup Undefined
       /\ args[k] \in Valued =>
            k < Len(args) /\ args[k + 1] \in Words /\ Valid(args[k], args[k + 1])
  /\ ~ Stray

IsValue(k) == k > 1 /\ args[k - 1] \in Valued

Setting(k) == << args[k], IF args[k] \in Valued THEN args[k + 1] ELSE args[k] >>

Meaning ==
  Command(
    At([ k \in 1..Len(args) |-> Setting(k) ], { k \in 1..Len(args) : args[k] \in Flags }),
    At(args, { k \in 1..Len(args) : args[k] \in Words /\ ~ IsValue(k) }))

(* Wherever its flags stand among its words, a plain command line is run as *)
(* it reads: every variable of the command, be it an address, a number, a   *)
(* switch or a directory, has the value next to the last flag that sets it, *)
(* or its default; the roots are all that were named, in order; and the     *)
(* words that are no values are host and path.                              *)
PlainMeansWhatItSays == pc = "done" /\ Plain => outcome = Meaning

RootFlags ==
  { f \in DOMAIN Sets["serve"] : Sets["serve"][f] = "rootDirs" }

(* What leads Parse astray on its way to a later flag: "-" and "--", at     *)
(* which it stops; a word after a complete flag, which reorderArgs takes    *)
(* for a value and Parse for the end of the flags; and a string flag that   *)
(* is no root's, without a value of its own: Parse gives it the next flag   *)
(* for a value.                                                             *)
LeadsAstray(k) ==
  \/ args[k] \in {Dash, DashDash}
  \/ args[k] \in Complete /\ args[k + 1] \in Words
  \/ args[k] \in StrFlags \ RootFlags /\ args[k + 1] \in Dashed

(* serve shares its working directory although roots were named only if     *)
(* each of them comes after something that leads Parse astray: wherever the *)
(* words and negative numbers stand, and whatever else the other flags take *)
(* for their values, no root is passed over.                                *)
RootsHonoured ==
  outcome.do = "serve cwd" =>
    \A j \in 1..Len(args) :
      args[j] \in RootFlags => \E k \in 1..j - 1 : LeadsAstray(k)
=============================================================================
