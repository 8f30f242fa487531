------------------------------- MODULE Config -------------------------------
(***************************************************************************)
(* The configuration: sconf.c reads the file line by line into a list of   *)
(* typed options, and load_config in main.c then asks for the options it   *)
(* knows, one by one, and corrects values that make no sense.              *)
(*                                                                         *)
(* The list is a sequence here; OptionList has it as sconf.c has it.       *)
(***************************************************************************)
EXTENDS ConfigFile

VARIABLES
    file,       \* the lines of the file
    line_nr,    \* how many of them were read
    head,       \* the list of options, each [name, type, val]
    reads,      \* how many options load_config has asked for
    settings,   \* the variables of main.c that hold them
    pc          \* "parse", "read", "ready", or "dead" after exit(1)

vars == <<file, line_nr, head, reads, settings, pc>>

Init ==
    /\ file \in Files
    /\ line_nr = 0 /\ head = <<>> /\ reads = 0
    /\ settings = Defaults
    /\ pc = "parse"

-----------------------------------------------------------------------------
(* sconf_load *)

IndexOfName(opts, name) == SelectInSeq(opts, LAMBDA opt : opt.name = name)

\* A new assignment replaces the option of the same name.
add_option(opts, new) ==
    LET old == IndexOfName(opts, new.name)
    IN  Append(IF old = 0 THEN opts ELSE RemoveAt(opts, old), new)

NoConfigFile ==
    /\ pc = "parse" /\ file = NoFile
    /\ pc' = "dead"
    /\ UNCHANGED <<file, line_nr, head, reads, settings>>

handle_line ==
    /\ pc = "parse" /\ file # NoFile /\ line_nr < Len(file)
    /\ line_nr' = line_nr + 1
    /\ LET line == file[line_nr + 1]
       IN  \/ /\ line.form = "blank"
              /\ UNCHANGED <<head, pc>>
           \/ /\ line.form = "broken"
              /\ pc' = "dead"
              /\ UNCHANGED head
           \/ /\ line.form \notin {"blank", "broken"}
              /\ head' = add_option(head, Parsed(line))
              /\ UNCHANGED pc
    /\ UNCHANGED <<file, reads, settings>>

EndOfFile ==
    /\ pc = "parse" /\ file # NoFile /\ line_nr = Len(file)
    /\ pc' = "read"
    /\ UNCHANGED <<file, line_nr, head, reads, settings>>

-----------------------------------------------------------------------------
(* load_config *)

\* sconf_get_*_option for the next option; one of another type is not found.
GetOption ==
    /\ pc = "read" /\ reads < Len(Reads)
    /\ reads' = reads + 1
    /\ LET r   == Reads[reads + 1]
           idx == IndexOfName(head, r.name)
           opt == AsFloat(head[idx], r.type)
       IN  \/ /\ idx = 0
              /\ UNCHANGED <<head, settings>>
           \/ /\ idx # 0
              /\ head' = [head EXCEPT ![idx] = opt]
              /\ settings' = IF opt.type # r.type THEN settings
                             ELSE [settings EXCEPT ![r.name] = Corrected(r.name, opt.val, @)]
    /\ UNCHANGED <<file, line_nr, pc>>

\* The options are freed.
sconf_free ==
    /\ pc = "read" /\ reads = Len(Reads)
    /\ pc' = "ready" /\ head' = <<>>
    /\ UNCHANGED <<file, line_nr, reads, settings>>

Next == NoConfigFile \/ handle_line \/ EndOfFile \/ GetOption \/ sconf_free

Spec == Init /\ [][Next]_vars

-----------------------------------------------------------------------------
(* Properties *)

\* add_option stops at the first option of the same name it finds
\* (sconf.c:63-72): that one is the only one, however often a name is assigned.
NamesUnique ==
    \A i, j \in DOMAIN head : head[i].name = head[j].name => i = j

\* The last assignment to a name, or none.
Assignment(name) ==
    SelectLastInSeq(file, LAMBDA line :
        line.form \notin {"blank", "broken"} /\ line.name = name)

\* How that assignment reads as a value of the type the program wants.
Understood(line, type) ==
    CASE type = "flt"  -> line.form = "number"
      [] type = "int"  -> line.form = "number" /\ Parsed(line).type = "int"
      [] type = "str"  -> line.form = "string"
      [] type = "bool" -> line.form = "bool"

\* What the file means by name: what the last assignment to it says, or the
\* default if there is none or it is of another type.
Meant(name) ==
    LET i    == Assignment(name)
        type == TypeOf(name)
    IN  IF i = 0 \/ ~ Understood(file[i], type) THEN Defaults[name]
        ELSE Corrected(name,
                       CASE type = "int"  -> file[i].value \div 2
                         [] type = "flt"  -> file[i].value
                         [] type = "str"  -> file[i].text
                         [] type = "bool" -> file[i].on,
                       Defaults[name])

\* Once the file is read, each variable holds what the file means by its name:
\* the order of the lines about other names and of the questions of load_config
\* do not matter, although a question can change the type of an option
\* (sconf.c:283-288).
SettingsFollowFile ==
    pc = "ready" => \A name \in Names : settings[name] = Meant(name)

\* Whatever the file says, the rest of the program starts with a grid that is
\* either set by the window manager or positive, and a known layer: an int made
\* of the file's numbers never wraps (main.c:211-218, 232-241, sconf.c:112-124).
SettingsSane ==
    pc = "ready" => /\ {settings.cols, settings.rows} \subseteq {-1} \cup 1 .. MaxInt
                    /\ settings.layer \in {"below", "normal", "above"}

\* "opacity must be between 0.0 and 1.0" (main.c:219-222), the range that
\* x_window_set_opacity is written for (x.h:243).
OpacityInRange == pc = "ready" => settings.opacity \in 0 .. 2

=============================================================================
