---------------------------- MODULE CommandLine ----------------------------
(***************************************************************************)
(* main up to the connection to the X server: the configuration is loaded, *)
(* then the arguments are parsed by opt.c, which accepts an option by any  *)
(* beginning of its name that no other option shares.                      *)
(*                                                                         *)
(* A word is a sequence of pieces, because the beginnings of names matter. *)
(***************************************************************************)
EXTENDS OptionList

CONSTANTS
    Arguments(_),   \* the lists of arguments to explore with a file
    Dash,           \* the piece of a word that is "-"
    table           \* the options of main.c, each [name, has_arg, asks]

\* A word is a sequence of pieces.  The names of options differ, and -display is
\* the one that has an argument.
ASSUME CommandLineAssumption ==
    /\ \A f \in Files : \A list \in Arguments(f) :
          /\ list \in Seq(ToSet(list))
          /\ \A word \in ToSet(list) : word \in Seq(ToSet(word))
    /\ table \in Seq(ToSet(table))
    /\ \A j \in DOMAIN table :
          /\ table[j].asks \in {"display", "help", "version"}
          /\ table[j].has_arg = (table[j].asks = "display")
    /\ \A j, k \in DOMAIN table : table[j].name = table[k].name => j = k

VARIABLES
    args,           \* the arguments
    i,              \* how many of them were parsed
    display_name,   \* the argument of -display, or <<>>
    stage           \* "options", "arguments", and then "told" after exit(0),
                    \* "failed" after exit(1), or "connect"

commandline == <<args, i, display_name, stage>>
allvars == <<vars, commandline>>

MainInit ==
    /\ Init /\ args \in Arguments(file)
    /\ i = 0 /\ display_name = <<>> /\ stage = "options"

-----------------------------------------------------------------------------
(* options_parse *)

\* "-" alone and "--" are no options.
IsOption(word) == Len(word) > 1 /\ word[1] = Dash /\ word # <<Dash, Dash>>

\* The options that a name without its dash stands for: one that has exactly this
\* name, or else all whose names begin with it.
Matching(name) ==
    LET exact  == {j \in DOMAIN table : table[j].name = name}
        prefix == {j \in DOMAIN table : IsPrefix(name, table[j].name)}
    IN  IF exact # {} THEN {Min(exact)} ELSE prefix

Options == /\ pc = "ready" /\ stage = "options"
           /\ UNCHANGED <<vars, args>>

NoMoreOptions ==
    /\ Options /\ stage' = "arguments"
    /\ \/ i = Len(args) /\ i' = i
       \/ i < Len(args) /\ args[i + 1] = <<Dash, Dash>> /\ i' = i + 1
       \/ i < Len(args) /\ args[i + 1] # <<Dash, Dash>> /\ ~ IsOption(args[i + 1]) /\ i' = i
    /\ UNCHANGED display_name

\* Mutant: every option is taken to need an argument.
OptionError_NoArgument ==
    /\ Options /\ stage' = "failed"
    /\ i < Len(args) /\ IsOption(args[i + 1])
    /\ Cardinality(Matching(Tail(args[i + 1]))) = 1 => i + 1 = Len(args)
    /\ UNCHANGED <<i, display_name>>

\* Unrecognized, ambiguous, or without its argument.
OptionError ==
    /\ Options /\ stage' = "failed"
    /\ i < Len(args) /\ IsOption(args[i + 1])
    /\ LET m == Matching(Tail(args[i + 1]))
       IN  Cardinality(m) = 1 => \E j \in m : table[j].has_arg /\ i + 1 = Len(args)
    /\ UNCHANGED <<i, display_name>>

\* Mutant: the argument is taken for the next option.
option_handler_KeepsArgument ==
    /\ Options
    /\ i < Len(args) /\ IsOption(args[i + 1])
    /\ \E j \in DOMAIN table :
          /\ Matching(Tail(args[i + 1])) = {j}
          /\ table[j].has_arg => i + 1 < Len(args)
          /\ i' = i + 1
          /\ \/ /\ table[j].asks = "display"
                /\ display_name' = args[i + 2] /\ UNCHANGED stage
             \/ /\ table[j].asks # "display"
                /\ stage' = "told" /\ UNCHANGED display_name

\* -display has an argument; -help and -version answer and exit.
option_handler ==
    /\ Options
    /\ i < Len(args) /\ IsOption(args[i + 1])
    /\ \E j \in DOMAIN table :
          /\ Matching(Tail(args[i + 1])) = {j}
          /\ table[j].has_arg => i + 1 < Len(args)
          /\ i' = IF table[j].has_arg THEN i + 2 ELSE i + 1
          /\ \/ /\ table[j].asks = "display"
                /\ display_name' = args[i + 2] /\ UNCHANGED stage
             \/ /\ table[j].asks # "display"
                /\ stage' = "told" /\ UNCHANGED display_name

-----------------------------------------------------------------------------
(* The rest of main *)

load_config == ConfigNext /\ UNCHANGED commandline

TooManyArguments ==
    /\ stage = "arguments" /\ i < Len(args) /\ stage' = "failed"
    /\ UNCHANGED <<vars, args, i, display_name>>

\* x_init opens the display that was named.
Connect ==
    /\ stage = "arguments" /\ i = Len(args) /\ stage' = "connect"
    /\ UNCHANGED <<vars, args, i, display_name>>

MainNext ==
    \/ load_config
    \/ NoMoreOptions \/ OptionError \/ option_handler
    \/ TooManyArguments \/ Connect

MainSpec == MainInit /\ [][MainNext]_allvars

-----------------------------------------------------------------------------
(* Properties *)

\* Which option a word is for somebody who reads the manual: the one that has
\* this name, or the only one whose name begins with it.
Means(word, asks) ==
    /\ IsOption(word)
    /\ \E j \in DOMAIN table :
          /\ table[j].asks = asks
          /\ IsPrefix(Tail(word), table[j].name)
          /\ \/ table[j].name = Tail(word)
             \/ \A k \in DOMAIN table : IsPrefix(Tail(word), table[k].name) => k = j

\* The first n pairs of arguments name displays, whatever the second of each is.
Displays(n) ==
    2 * n <= Len(args) /\ \A k \in 1 .. n : Means(args[2 * k - 1], "display")

\* The program gets as far as the display, the last one named, exactly if its
\* arguments are such pairs, and perhaps "--" in the end (main.c:268-275).
ConnectsAsAsked ==
    LET Fits(n) == /\ Displays(n)
                   /\ SubSeq(args, 2 * n + 1, Len(args)) \in {<<>>, << <<Dash, Dash>> >>}
    IN  /\ stage = "connect" => \E n \in 0 .. Len(args) :
              Fits(n) /\ display_name = IF n = 0 THEN <<>> ELSE args[2 * n]
        /\ stage \in {"told", "failed"} => ~ \E n \in 0 .. Len(args) : Fits(n)

\* Help or the version is asked for after n displays were named, whatever
\* nonsense follows.
Asks(n) ==
    /\ Displays(n) /\ 2 * n < Len(args)
    /\ Means(args[2 * n + 1], "help") \/ Means(args[2 * n + 1], "version")

AskedFor == \E n \in 0 .. Len(args) : Asks(n)

\* Once the options are parsed, help or the version was printed exactly if it was
\* asked for, wherever that was: the program has neither complained about an
\* argument nor gone on to connect then (opt.c:38-99, main.c:172-203).
AnswersAsked == stage # "options" => (stage = "told" <=> AskedFor)

\* "-help: display this help and exit" (main.c:182, doc/netwmpager.1:20-21), which
\* is also what README.md:62 sends a user to who has no configuration file yet.
HelpWithoutConfig == AskedFor => pc # "dead"

=============================================================================
