----------------------------- MODULE OptionList -----------------------------
(***************************************************************************)
(* The configuration as Config has it, but with the options where sconf.c  *)
(* keeps them: in memory that is allocated and freed, linked by list.h.    *)
(* The name of an option is a piece of memory of its own.                  *)
(***************************************************************************)
EXTENDS ConfigFile, List

CONSTANT
    Free        \* what is in memory that is not allocated

\* The lines that make an option, and the options they make.
Assignments == {line \in Lines : line.form \notin {"blank", "broken"}}
OptionValues == UNION {{Parsed(line), AsFloat(Parsed(line), "flt")} : line \in Assignments}

ASSUME OptionListAssumption == Free \notin OptionValues

VARIABLES
    file, line_nr, reads, settings, pc,     \* as in Config
    links,      \* the list_head of each option, and the head
    options,    \* the options in memory: [name, type, val], or Free
    names       \* the options whose name was allocated and not freed

vars == <<file, line_nr, reads, settings, pc, links, options, names>>

Allocated == {n \in Nodes : options[n] # Free}

Init ==
    /\ file \in Files
    /\ line_nr = 0 /\ reads = 0
    /\ links = LIST_HEAD_INIT /\ options = [n \in Nodes |-> Free] /\ names = {}
    /\ settings = Defaults
    /\ pc = "parse"

-----------------------------------------------------------------------------
(* sconf_load *)

\* The place in the list of the first option of that name, or 0.
IndexOfName(name) == SelectInSeq(Entries(links), LAMBDA n : options[n].name = name)

\* Mutant: an option of the same name stays in the list.
add_option_KeepsOld(n, new) ==
    /\ links' = list_add_tail(links, n)
    /\ options' = [options EXCEPT ![n] = new]
    /\ names' = names \cup {n}

\* A new assignment replaces the option of the same name, which is freed with
\* its name.
add_option(n, new) ==
    LET i == IndexOfName(new.name)
    IN  \/ /\ i = 0
           /\ links' = list_add_tail(links, n)
           /\ options' = [options EXCEPT ![n] = new]
           /\ names' = names \cup {n}
        \/ /\ i # 0
           /\ LET old == Entries(links)[i]
              IN  /\ links' = list_add_tail(list_del(links, old), n)
                  /\ options' = [options EXCEPT ![old] = Free, ![n] = new]
                  /\ names' = (names \ {old}) \cup {n}

NoConfigFile ==
    /\ pc = "parse" /\ file = NoFile
    /\ pc' = "dead"
    /\ UNCHANGED <<file, line_nr, reads, settings, links, options, names>>

handle_line ==
    /\ pc = "parse" /\ file # NoFile /\ line_nr < Len(file)
    /\ line_nr' = line_nr + 1
    /\ LET line == file[line_nr + 1]
       IN  \/ /\ line.form = "blank"
              /\ UNCHANGED <<links, options, names, pc>>
           \/ /\ line.form = "broken"
              /\ pc' = "dead"
              /\ UNCHANGED <<links, options, names>>
           \/ /\ line.form \notin {"blank", "broken"}
              /\ \E n \in Nodes \ Allocated : add_option(n, Parsed(line))
              /\ UNCHANGED pc
    /\ UNCHANGED <<file, reads, settings>>

EndOfFile ==
    /\ pc = "parse" /\ file # NoFile /\ line_nr = Len(file)
    /\ pc' = "read"
    /\ UNCHANGED <<file, line_nr, reads, settings, links, options, names>>

-----------------------------------------------------------------------------
(* load_config *)

\* find_opt and the correction of what it finds.
GetOption ==
    /\ pc = "read" /\ reads < Len(Reads)
    /\ reads' = reads + 1
    /\ LET r   == Reads[reads + 1]
           i   == IndexOfName(r.name)
           n   == Entries(links)[i]
           opt == AsFloat(options[n], r.type)
       IN  \/ /\ i = 0
              /\ UNCHANGED <<options, settings>>
           \/ /\ i # 0
              /\ options' = [options EXCEPT ![n] = opt]
              /\ settings' = IF opt.type # r.type THEN settings
                             ELSE [settings EXCEPT ![r.name] = Corrected(r.name, opt.val, @)]
    /\ UNCHANGED <<file, line_nr, pc, links, names>>

\* Mutant: the entry at the tail is forgotten.
sconf_free_NotLast ==
    /\ pc = "read" /\ reads = Len(Reads)
    /\ pc' = "ready"
    /\ options' = [n \in Nodes |-> IF n = links[ListHead].prev THEN options[n] ELSE Free]
    /\ UNCHANGED <<file, line_nr, reads, settings, links, names>>

\* The options are freed in the order of the list, each after its link to the
\* next was read, and their values with them; but not their names, as
\* option_free does.  The head still points to the first.
sconf_free ==
    /\ pc = "read" /\ reads = Len(Reads)
    /\ pc' = "ready"
    /\ options' = [n \in Nodes |-> IF \E k \in DOMAIN Entries(links) : Entries(links)[k] = n
                                   THEN Free ELSE options[n]]
    /\ UNCHANGED <<file, line_nr, reads, settings, links, names>>

ConfigNext == NoConfigFile \/ handle_line \/ EndOfFile \/ GetOption \/ sconf_free

Spec == Init /\ [][ConfigNext]_vars

-----------------------------------------------------------------------------
(* Properties *)

\* The list as Config has it; none when it has been freed.
Listed == IF pc = "ready" THEN <<>>
          ELSE [k \in DOMAIN Entries(links) |-> options[Entries(links)[k]]]

C == INSTANCE Config WITH head <- Listed

\* Following pointers finds the options that a sequence would have, in its order,
\* whatever was replaced and freed in between (sconf.c:58-73, 274-293).
ConfigImplemented == C!Spec

\* Until it is freed, the list is intact both ways and has every option that is
\* in memory, each with its name, and none that was freed: what is replaced goes
\* altogether (sconf.c:50-56, 67-72).  Afterwards no option is left (sconf.c:262-271).
\* Nothing is said of the names then: sconf_free leaves all of them behind.
ListSound ==
    /\ pc # "ready" => /\ Ring(links, Entries(links))
                       /\ Allocated = {Entries(links)[k] : k \in DOMAIN Entries(links)}
                       /\ names = Allocated
    /\ pc = "ready" => Allocated = {}

\* See Config: an assignment leaves no other one of its name, and the settings
\* are what the file says, with a grid and a layer that there are, and an opacity
\* in its range.
NamesUnique == C!NamesUnique
SettingsFollowFile == C!SettingsFollowFile
SettingsSane == C!SettingsSane
OpacityInRange == C!OpacityInRange

=============================================================================
