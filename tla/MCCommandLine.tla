--------------------------- MODULE MCCommandLine ---------------------------
(* Values of the constants for checking CommandLine on a small instance. *)
EXTENDS CommandLine

CONSTANTS n1, n2, n3

Number(name, value) == [form |-> "number", name |-> name, value |-> value]
String(name, text) == [form |-> "string", name |-> name, text |-> text]
Bool(name, on) == [form |-> "bool", name |-> name, on |-> on]
Blank == [form |-> "blank"]
Broken == [form |-> "broken"]

\* The values are in halves: cols = 2, 0, 1.5, too large for an int, rows = -1
\* and -2, opacity = 0.5, 1, 1.5, 0, -1 and nan.
Numbers == {Number("cols", 4), Number("cols", 0), Number("cols", 3),
            Number("cols", 2 * MaxInt + 2), Number("rows", -2), Number("rows", -4),
            Number("opacity", 1), Number("opacity", 2), Number("opacity", 3),
            Number("opacity", 0), Number("opacity", -2), Number("opacity", NaN)}

\* Values of the right type, of the wrong type, and for a name nobody reads.
Others == {String("layer", "above"), String("layer", "top"), String("opacity", "half"),
           Bool("show_sticky", FALSE), Bool("cols", TRUE), Number("show_sticky", 2),
           Bool("unknown", TRUE)}

FileLines == Numbers \cup Others \cup {Blank, Broken}

\* main.c:149-154, with names in two pieces.
MainTable ==
    << [name |-> <<"d", "isplay">>,  has_arg |-> TRUE,  asks |-> "display"],
       [name |-> <<"h", "elp">>,     has_arg |-> FALSE, asks |-> "help"],
       [name |-> <<"v", "ersion">>,  has_arg |-> FALSE, asks |-> "version"] >>

\* No option, names in full and short, and names of nothing.
Words == {<<>>, <<Dash>>, <<Dash, Dash>>, <<"name">>, <<Dash, "d">>, <<Dash, "d", "isplay">>,
          <<Dash, "h">>, <<Dash, "v", "ersion">>, <<Dash, "h", "elp", "less">>, <<Dash, "x">>,
          <<Dash, Dash, "h", "elp">>}

\* Every file without arguments, and a few files with every list of arguments.
AnyArguments(f) ==
    IF f = <<>> THEN SeqOf(Words, 4)
    ELSE IF f \in {NoFile, <<Broken>>} THEN SeqOf(Words, 1) ELSE {<<>>}

\* Files that are in order and one that is not, with every short list of
\* arguments; every file without arguments.
FewLines == {Blank, Broken, Number("cols", 4)}
ShortArguments(f) == SeqOf(Words, 3)
NoArguments(f) == {<<>>}

Memory == Permutations({n1, n2, n3})

=============================================================================
