----------------------------- MODULE ConfigFile -----------------------------
(***************************************************************************)
(* What a configuration file says, and what load_config makes of it.       *)
(*                                                                         *)
(* A line is blank, broken (a syntax error) or an assignment, whose value  *)
(* is a number, a quoted string, or true / false.  Numbers are counted in  *)
(* halves, so that 0.5 is 1: enough to tell integers from fractions; strtod *)
(* also reads a value that is not a number.                                *)
(***************************************************************************)
EXTENDS Integers, Sequences, SequencesExt

CONSTANTS
    Lines,      \* lines a file may consist of
    MaxLines,   \* bound: length of a file
    MaxInt,     \* INT_MAX
    NaN,        \* the number that is none: no comparison with it is true
    NoFile      \* there is no configuration file, or it cannot be opened

ASSUME ConfigAssumption ==
    /\ MaxLines \in Nat /\ MaxInt \in Nat \ {0}
    /\ \A l \in Lines : /\ l.form \in {"blank", "broken", "number", "string", "bool"}
                        /\ l.form = "number" => l.value \in Int \cup {NaN}
    /\ NaN \notin Int

Files == SeqOf(Lines, MaxLines) \cup {NoFile}

\* What load_config asks for, in this order.
Reads == <<
    [name |-> "cols", type |-> "int"], [name |-> "rows", type |-> "int"],
    [name |-> "opacity", type |-> "flt"], [name |-> "geometry", type |-> "str"],
    [name |-> "popup_font", type |-> "str"], [name |-> "window_font", type |-> "str"],
    [name |-> "show_popups", type |-> "bool"], [name |-> "show_sticky", type |-> "bool"],
    [name |-> "show_titles", type |-> "bool"], [name |-> "allow_cover", type |-> "bool"],
    [name |-> "show_icons", type |-> "bool"], [name |-> "layer", type |-> "str"],
    [name |-> "active_win_color", type |-> "str"], [name |-> "inactive_win_color", type |-> "str"],
    [name |-> "active_desk_color", type |-> "str"], [name |-> "inactive_desk_color", type |-> "str"],
    [name |-> "win_border_color", type |-> "str"], [name |-> "grid_color", type |-> "str"],
    [name |-> "active_win_font_color", type |-> "str"],
    [name |-> "inactive_win_font_color", type |-> "str"],
    [name |-> "popup_color", type |-> "str"], [name |-> "popup_font_color", type |-> "str"] >>

Names == {Reads[i].name : i \in DOMAIN Reads}
TypeOf(name) == (CHOOSE r \in ToSet(Reads) : r.name = name).type

\* The values of the variables before the file is read; "unset" stands for what
\* each string is by default.
Defaults ==
    [name \in Names |->
        CASE name \in {"cols", "rows"} -> -1
          [] name = "opacity" -> 2
          [] name = "layer" -> "normal"
          [] OTHER -> IF TypeOf(name) = "bool" THEN TRUE ELSE "unset"]

\* The option an assignment makes.  A number without fraction that fits an int
\* is one.  The conversion of any other number to int is undefined, but no int
\* it could yield equals that number.
Parsed(line) ==
    CASE line.form = "number" ->
            IF /\ line.value # NaN
               /\ line.value % 2 = 0 /\ line.value \div 2 \in -MaxInt - 1 .. MaxInt
            THEN [name |-> line.name, type |-> "int", val |-> line.value \div 2]
            ELSE [name |-> line.name, type |-> "flt", val |-> line.value]
      [] line.form = "string" -> [name |-> line.name, type |-> "str", val |-> line.text]
      [] line.form = "bool" -> [name |-> line.name, type |-> "bool", val |-> line.on]

\* Mutant: whoever asks for a float does not take an int.
AsFloat_Never(opt, type) == opt

\* An int that is asked for as a float becomes one, for good.
AsFloat(opt, type) ==
    IF type = "flt" /\ opt.type = "int"
    THEN [opt EXCEPT !.type = "flt", !.val = 2 * @] ELSE opt

\* Mutant: values below the range pass.
Corrected_UpperOnly(name, value, old) ==
    CASE name = "opacity" /\ value # NaN /\ value > 2 -> 2
      [] name = "layer" /\ value \notin {"below", "normal", "above"} -> old
      [] OTHER -> value

\* What a variable becomes, given the value the file has for it and its old one.
Corrected(name, value, old) ==
    CASE name \in {"cols", "rows"} /\ value < 1 /\ value # -1 -> 1
      [] name = "opacity" /\ value # NaN /\ (value < 0 \/ value > 2) -> 2
      [] name = "layer" /\ value \notin {"below", "normal", "above"} -> old
      [] OTHER -> value

=============================================================================
