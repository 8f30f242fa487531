------------------------- MODULE CommandLineProofs -------------------------
(***************************************************************************)
(* However many arguments there are and whatever they are, main does what  *)
(* they ask for: it connects to the display named last, or answers, or     *)
(* fails.  The invariant says what was parsed so far: pairs of -display    *)
(* and a name, and where the parser stopped, if it did.  What is proved of *)
(* the configuration holds of main, too.                                   *)
(***************************************************************************)
EXTENDS CommandLine, OptionListProofs, FiniteSetTheorems

\* What an element of ToSet is, and where the arguments come from.
LEMMA WordTypes ==
    ASSUME file \in Files, args \in Arguments(file)
    PROVE  /\ Len(args) \in Nat
           /\ \A k \in 1 .. Len(args) : args[k] \in Seq(ToSet(args[k]))
<1>1. args \in Seq(ToSet(args)) /\ \A word \in ToSet(args) : word \in Seq(ToSet(word))
  BY CommandLineAssumption
<1>2. \A k \in 1 .. Len(args) : args[k] \in ToSet(args)
  BY <1>1 DEF ToSet
<1> QED
  BY <1>1, <1>2

LEMMA TableTypes == Len(table) \in Nat /\ DOMAIN table = 1 .. Len(table)
<1>1. table \in Seq(ToSet(table))
  BY CommandLineAssumption
<1> HIDE CommandLineAssumption
<1> QED
  BY <1>1

-----------------------------------------------------------------------------
(* Which option a word is for *)

\* Exactly one option that shares its beginning with the word, or has just this
\* name, is what the parser settles for, and so does the reader of the manual.
LEMMA MatchingMeans ==
    ASSUME NEW word, NEW P, word \in Seq(P), IsOption(word), NEW asks
    PROVE  Means(word, asks) <=>
             \E j \in DOMAIN table : Matching(Tail(word)) = {j} /\ table[j].asks = asks
<1> DEFINE name   == Tail(word)
           exact  == {j \in DOMAIN table : table[j].name = name}
           prefix == {j \in DOMAIN table : IsPrefix(name, table[j].name)}
<1>1. name \in Seq(P)
  BY DEF IsOption
<1>2. \A j \in exact : j \in prefix
  BY <1>1 DEF IsPrefix
<1>3. \A j \in exact : exact = {j} /\ Min(exact) = j
  <2> SUFFICES ASSUME NEW j \in exact PROVE exact = {j} /\ Min(exact) = j
    OBVIOUS
  <2>1. exact = {j}
    BY CommandLineAssumption
  <2>2. j \in Nat
    BY TableTypes
  <2>3. Min({j}) = j
    BY <2>2 DEF Min
  <2> QED
    BY <2>1, <2>3
<1>4. Matching(name) = IF exact # {} THEN {Min(exact)} ELSE prefix
  BY DEF Matching
<1> HIDE DEF name
<1>5. Means(word, asks) <=>
        \E j \in prefix : /\ table[j].asks = asks
                          /\ table[j].name = name \/ \A k \in prefix : k = j
  BY DEF Means, name
<1>6. CASE exact # {}
  <2>1. PICK e \in exact : exact = {e} /\ Matching(name) = {e}
    BY <1>3, <1>4, <1>6
  <2>2. Means(word, asks) <=> table[e].asks = asks
    BY <1>2, <1>5, <2>1
  <2> QED
    BY <2>1, <2>2 DEF name
<1>7. CASE exact = {}
  <2>1. Matching(name) = prefix
    BY <1>4, <1>7
  <2>2. \A j \in prefix : table[j].name # name
    BY <1>7
  <2> HIDE DEF prefix
  <2>3. Means(word, asks) <=> \E j \in prefix : table[j].asks = asks /\ prefix = {j}
    BY <1>5, <2>2
  <2>4. prefix \subseteq DOMAIN table
    BY DEF prefix
  <2> QED
    BY <2>1, <2>3, <2>4 DEF name
<1> QED
  BY <1>6, <1>7

\* So it has one meaning at most.
LEMMA OneMeaning ==
    ASSUME NEW word, NEW P, word \in Seq(P), NEW a, NEW b, Means(word, a), Means(word, b)
    PROVE  a = b
<1>1. IsOption(word)
  BY DEF Means
<1>2. PICK j \in DOMAIN table : Matching(Tail(word)) = {j} /\ table[j].asks = a
  BY <1>1, MatchingMeans
<1>3. PICK k \in DOMAIN table : Matching(Tail(word)) = {k} /\ table[k].asks = b
  BY <1>1, MatchingMeans
<1> QED
  BY <1>2, <1>3

-----------------------------------------------------------------------------
(* What was parsed *)

\* The arguments that lead to the display after n pairs.
Fits(n) ==
    /\ Displays(n)
    /\ SubSeq(args, 2 * n + 1, Len(args)) \in {<<>>, << <<Dash, Dash>> >>}

\* The display that n pairs name.
Named(n) == display_name = IF n = 0 THEN <<>> ELSE args[2 * n]

\* n pairs were parsed.
Parsing(n) == i = 2 * n /\ Displays(n) /\ Named(n)

\* n pairs were parsed, and "--" if it follows; no other option does.
Stopped(n) ==
    /\ Displays(n) /\ Named(n)
    /\ \/ /\ i = 2 * n
          /\ i < Len(args) => ~ IsOption(args[i + 1]) /\ args[i + 1] # <<Dash, Dash>>
       \/ i = 2 * n + 1 /\ i <= Len(args) /\ args[i] = <<Dash, Dash>>

\* Where main is, and what of its arguments led it there.
CommandInv ==
    /\ file \in Files /\ args \in Arguments(file)
    /\ stage \in {"options", "arguments", "told", "failed", "connect"}
    /\ stage = "options" => \E n \in 0 .. Len(args) : Parsing(n)
    /\ stage \in {"arguments", "connect"} => \E n \in 0 .. Len(args) : Stopped(n)
    /\ stage = "connect" => i = Len(args)
    /\ stage = "told" => \E n \in 0 .. Len(args) : Asks(n)
    /\ stage = "failed" => \A n \in 0 .. Len(args) : ~ Fits(n) /\ ~ Asks(n)

\* The pairs end at one place: the arguments fit, or ask, there or nowhere.
LEMMA OnePlace ==
    ASSUME file \in Files, args \in Arguments(file), NEW n \in Nat, Displays(n),
           ~ Displays(n + 1), NEW m \in Nat
    PROVE  /\ Fits(m) => m = n
           /\ Asks(m) => m = n
<1>1. /\ Len(args) \in Nat /\ 2 * n <= Len(args)
      /\ \A k \in 1 .. Len(args) : args[k] \in Seq(ToSet(args[k]))
  BY WordTypes DEF Displays
<1>2. m > n => ~ Displays(m)
  <2> SUFFICES ASSUME m > n, Displays(m) PROVE FALSE
    OBVIOUS
  <2>1. 2 * (n + 1) <= Len(args) /\ \A k \in 1 .. n + 1 : Means(args[2 * k - 1], "display")
    BY <1>1 DEF Displays
  <2> QED
    BY <2>1 DEF Displays
<1>3. ASSUME m < n PROVE ~ Fits(m) /\ ~ Asks(m)
  <2>1. Len(args) >= 2 * m + 2 /\ Means(args[2 * m + 1], "display")
    <3>1. m + 1 \in 1 .. n /\ 2 * (m + 1) - 1 = 2 * m + 1
      BY <1>3
    <3>2. Means(args[2 * (m + 1) - 1], "display")
      BY <3>1 DEF Displays
    <3> QED
      BY <1>1, <1>3, <3>1, <3>2
  <2>2. ~ Asks(m)
    <3> SUFFICES ASSUME NEW a \in {"help", "version"}, Means(args[2 * m + 1], a)
                 PROVE  FALSE
      BY DEF Asks
    <3>1. args[2 * m + 1] \in Seq(ToSet(args[2 * m + 1]))
      BY <1>1, <2>1
    <3> QED
      BY <2>1, <3>1, OneMeaning
  <2> DEFINE rest == SubSeq(args, 2 * m + 1, Len(args))
  <2>3. Len(rest) >= 2
    <3>1. args \in Seq(ToSet(args))
      BY CommandLineAssumption
    <3> QED
      BY <1>1, <2>1, <3>1
  <2>4. Fits(m) => rest \in {<<>>, << <<Dash, Dash>> >>}
    BY DEF Fits
  <2> HIDE DEF rest
  <2>5. rest # <<>> /\ rest # << <<Dash, Dash>> >>
    BY <2>3
  <2> QED
    BY <2>2, <2>4, <2>5
<1> QED
  BY <1>2, <1>3 DEF Fits, Asks

\* After "--", or where no option follows, there is no further pair.
LEMMA PairsEnd ==
    ASSUME file \in Files, args \in Arguments(file), NEW n \in Nat, Stopped(n)
    PROVE  /\ ~ Displays(n + 1)
           /\ ~ Asks(n)
           /\ Fits(n) <=> i = Len(args)
<1>1. Len(args) \in Nat /\ 2 * n <= Len(args)
  BY WordTypes DEF Stopped, Displays
<1>2. 2 * n < Len(args) => ~ IsOption(args[2 * n + 1])
  <2>1. CASE i = 2 * n /\ (i < Len(args) => ~ IsOption(args[i + 1]))
    BY <2>1
  <2>2. CASE i = 2 * n + 1 /\ args[i] = <<Dash, Dash>>
    BY <2>2 DEF IsOption
  <2> QED
    BY <2>1, <2>2 DEF Stopped
<1>3. ~ Asks(n)
  BY <1>2 DEF Asks, Means
<1>4. ~ Displays(n + 1)
  <2>1. Displays(n + 1) => 2 * n < Len(args) /\ Means(args[2 * n + 1], "display")
    <3>1. n + 1 \in 1 .. n + 1 /\ 2 * (n + 1) - 1 = 2 * n + 1
      OBVIOUS
    <3> QED
      BY <1>1, <3>1 DEF Displays
  <2> QED
    BY <1>2, <2>1 DEF Means
<1> DEFINE rest == SubSeq(args, 2 * n + 1, Len(args))
<1>5. Fits(n) <=> rest \in {<<>>, << <<Dash, Dash>> >>}
  BY DEF Fits, Stopped
<1>6. args \in Seq(ToSet(args))
  BY CommandLineAssumption
<1> HIDE CommandLineAssumption
<1>7. /\ rest \in Seq(ToSet(args)) /\ Len(rest) = Len(args) - 2 * n
      /\ 2 * n < Len(args) => rest[1] = args[2 * n + 1]
  BY <1>1, <1>6
<1> HIDE DEF rest
<1>8. /\ rest = <<>> <=> Len(rest) = 0
      /\ rest = << <<Dash, Dash>> >> <=> Len(rest) = 1 /\ rest[1] = <<Dash, Dash>>
  <2>1. rest = <<>> <=> Len(rest) = 0
    BY <1>7
  <2>2. ASSUME Len(rest) = 1, rest[1] = <<Dash, Dash>> PROVE rest = << <<Dash, Dash>> >>
    <3>1. rest[1] \in ToSet(args)
      <4>1. rest \in Seq(ToSet(args))
        BY <1>7
      <4>2. Len(rest) = 1
        BY <2>2
      <4> QED
        BY <4>1, <4>2
    <3>2. <<rest[1]>> \in Seq(ToSet(args)) /\ Len(<<rest[1]>>) = 1
      BY <3>1
    <3>3. \A k \in 1 .. Len(rest) : rest[k] = <<rest[1]>>[k]
      BY <2>2
    <3>4. rest = <<rest[1]>>
      BY <1>7, <2>2, <3>2, <3>3, SeqEqual
    <3> QED
      BY <2>2, <3>4
  <2>3. rest = << <<Dash, Dash>> >> => Len(rest) = 1 /\ rest[1] = <<Dash, Dash>>
    OBVIOUS
  <2> QED
    BY <2>1, <2>2, <2>3
<1>9. CASE i = 2 * n /\ (i < Len(args) => args[i + 1] # <<Dash, Dash>>)
  <2>1. Len(rest) = Len(args) - i
    BY <1>7, <1>9
  <2>2. ~ (Len(rest) = 1 /\ rest[1] = <<Dash, Dash>>)
    BY <1>1, <1>7, <1>9
  <2> QED
    BY <1>1, <1>3, <1>4, <1>5, <1>8, <1>9, <2>1, <2>2
<1>10. CASE i = 2 * n + 1 /\ i <= Len(args) /\ args[i] = <<Dash, Dash>>
  BY <1>1, <1>3, <1>4, <1>5, <1>7, <1>8, <1>10
<1> QED
  BY <1>9, <1>10 DEF Stopped

-----------------------------------------------------------------------------
(* The steps *)

LEMMA CommandInit == MainInit => CommandInv
<1> SUFFICES ASSUME MainInit PROVE CommandInv
  OBVIOUS
<1>1. file \in Files /\ args \in Arguments(file)
  BY DEF MainInit, Init
<1>2. Len(args) \in Nat
  BY <1>1, WordTypes
<1>3. Parsing(0)
  BY <1>2 DEF MainInit, Parsing, Displays, Named
<1> QED
  BY <1>1, <1>2, <1>3 DEF MainInit, CommandInv

\* What neither the arguments nor what was parsed of them depends on.
LEMMA SameArguments ==
    ASSUME args' = args, NEW n
    PROVE  /\ Displays(n)' = Displays(n) /\ Fits(n)' = Fits(n) /\ Asks(n)' = Asks(n)
           /\ display_name' = display_name => Named(n)' = Named(n)
BY DEF Displays, Fits, Asks, Named

\* The parser stops at the first argument that is no option.
LEMMA NoMoreOptionsInv ==
    ASSUME CommandInv, NoMoreOptions
    PROVE  CommandInv'
<1>1. /\ UNCHANGED <<file, args, display_name>> /\ stage = "options" /\ stage' = "arguments"
  BY DEF NoMoreOptions, Options, vars
<1>2. PICK n \in 0 .. Len(args) : Parsing(n)
  BY <1>1 DEF CommandInv
<1>3. Displays(n)' /\ Named(n)'
  BY <1>1, <1>2, SameArguments DEF Parsing
<1>4. /\ i = 2 * n /\ n \in Nat /\ Len(args) \in Nat
  BY <1>2, WordTypes DEF Parsing, CommandInv
<1>5. Stopped(n)'
  <2>1. CASE i = Len(args) /\ i' = i
    BY <1>1, <1>3, <1>4, <2>1 DEF Stopped
  <2>2. CASE i < Len(args) /\ args[i + 1] = <<Dash, Dash>> /\ i' = i + 1
    BY <1>1, <1>3, <1>4, <2>2 DEF Stopped
  <2>3. CASE i < Len(args) /\ args[i + 1] # <<Dash, Dash>> /\ ~ IsOption(args[i + 1]) /\ i' = i
    BY <1>1, <1>3, <1>4, <2>3 DEF Stopped
  <2> QED
    BY <2>1, <2>2, <2>3 DEF NoMoreOptions
<1> QED
  BY <1>1, <1>2, <1>5 DEF CommandInv

\* An option that is none, or several, or lacks its argument, is no pair and asks
\* nothing.
LEMMA OptionErrorInv ==
    ASSUME CommandInv, OptionError
    PROVE  CommandInv'
<1>1. /\ UNCHANGED <<file, args>> /\ stage = "options" /\ stage' = "failed"
      /\ i < Len(args) /\ IsOption(args[i + 1])
  BY DEF OptionError, Options, vars
<1>2. PICK n \in 0 .. Len(args) : Parsing(n)
  BY <1>1 DEF CommandInv
<1>3. /\ i = 2 * n /\ n \in Nat /\ Displays(n) /\ Len(args) \in Nat
      /\ args[2 * n + 1] \in Seq(ToSet(args[2 * n + 1])) /\ IsOption(args[2 * n + 1])
  BY <1>1, <1>2, WordTypes DEF Parsing, CommandInv
<1>4. ASSUME NEW asks, Means(args[2 * n + 1], asks)
      PROVE  asks = "display" /\ 2 * n + 1 = Len(args)
  <2>1. PICK j \in DOMAIN table : Matching(Tail(args[i + 1])) = {j} /\ table[j].asks = asks
    BY <1>3, <1>4, MatchingMeans
  <2>2. Cardinality({j}) = 1
    BY FS_Singleton
  <2>3. table[j].has_arg /\ i + 1 = Len(args)
    BY <2>1, <2>2 DEF OptionError
  <2> QED
    BY <1>3, <2>1, <2>3, CommandLineAssumption
<1>5. ~ Displays(n + 1)
  <2> SUFFICES ASSUME Displays(n + 1) PROVE FALSE
    OBVIOUS
  <2>1. /\ n + 1 \in 1 .. n + 1 /\ 2 * (n + 1) - 1 = 2 * n + 1
        /\ \A k \in 1 .. n + 1 : Means(args[2 * k - 1], "display")
    BY <1>3 DEF Displays
  <2>2. Means(args[2 * n + 1], "display")
    BY <2>1
  <2>3. 2 * (n + 1) <= Len(args)
    BY DEF Displays
  <2> QED
    BY <1>3, <1>4, <2>2, <2>3
<1>6. ~ Asks(n)
  BY <1>4 DEF Asks
<1>7. ~ Fits(n)
  <2> DEFINE rest == SubSeq(args, 2 * n + 1, Len(args))
  <2>1. Len(rest) >= 1 /\ rest[1] = args[2 * n + 1]
    <3>1. args \in Seq(ToSet(args))
      BY CommandLineAssumption DEF CommandInv
    <3> QED
      BY <1>1, <1>3, <3>1
  <2>2. Fits(n) => rest \in {<<>>, << <<Dash, Dash>> >>}
    BY DEF Fits
  <2> HIDE DEF rest
  <2>3. rest # <<>> /\ rest # << <<Dash, Dash>> >>
    BY <1>3, <2>1 DEF IsOption
  <2> QED
    BY <2>2, <2>3
<1>8. \A m \in Nat : ~ Fits(m) /\ ~ Asks(m)
  BY <1>3, <1>5, <1>6, <1>7, OnePlace DEF CommandInv
<1>9. \A m \in 0 .. Len(args') : ~ Fits(m)' /\ ~ Asks(m)'
  BY <1>1, <1>3, <1>8, SameArguments
<1> QED
  BY <1>1, <1>9 DEF CommandInv

\* A pair more, or an answer.
LEMMA OptionHandlerInv ==
    ASSUME CommandInv, option_handler
    PROVE  CommandInv'
<1>1. /\ UNCHANGED <<file, args>> /\ stage = "options"
      /\ i < Len(args) /\ IsOption(args[i + 1])
  BY DEF option_handler, Options, vars
<1>2. PICK n \in 0 .. Len(args) : Parsing(n)
  BY <1>1 DEF CommandInv
<1>3. /\ i = 2 * n /\ n \in Nat /\ Displays(n) /\ Len(args) \in Nat
      /\ args[2 * n + 1] \in Seq(ToSet(args[2 * n + 1])) /\ IsOption(args[2 * n + 1])
  BY <1>1, <1>2, WordTypes DEF Parsing, CommandInv
<1>4. PICK j \in DOMAIN table :
          /\ Matching(Tail(args[i + 1])) = {j}
          /\ table[j].has_arg => i + 1 < Len(args)
          /\ i' = IF table[j].has_arg THEN i + 2 ELSE i + 1
          /\ \/ /\ table[j].asks = "display"
                /\ display_name' = args[i + 2] /\ UNCHANGED stage
             \/ /\ table[j].asks # "display"
                /\ stage' = "told" /\ UNCHANGED display_name
  BY DEF option_handler
<1>5. Means(args[2 * n + 1], table[j].asks)
  BY <1>3, <1>4, MatchingMeans
<1>6. CASE table[j].asks = "display"
  <2>1. /\ i' = 2 * (n + 1) /\ i + 1 < Len(args)
        /\ display_name' = args[2 * (n + 1)] /\ stage' = "options"
    <3>1. table[j].has_arg
      BY <1>4, <1>6, CommandLineAssumption
    <3>2. 2 * (n + 1) = i + 2
      BY <1>3
    <3> QED
      BY <1>1, <1>4, <1>6, <3>1, <3>2
  <2>2. Displays(n + 1)
    <3>1. ASSUME NEW k \in 1 .. n + 1 PROVE Means(args[2 * k - 1], "display")
      <4>1. CASE k = n + 1
        <5>1. 2 * k - 1 = 2 * n + 1
          BY <1>3, <4>1
        <5> QED
          BY <1>5, <1>6, <5>1
      <4>2. CASE k \in 1 .. n
        BY <1>3, <4>2 DEF Displays
      <4> QED
        BY <1>3, <4>1, <4>2
    <3> QED
      BY <1>3, <2>1, <3>1 DEF Displays
  <2>3. Displays(n + 1)' /\ Named(n + 1)'
    BY <1>1, <1>3, <2>1, <2>2, SameArguments DEF Named
  <2>4. n + 1 \in 0 .. Len(args') /\ Parsing(n + 1)'
    BY <1>1, <1>3, <2>1, <2>3 DEF Parsing
  <2> QED
    BY <1>1, <2>1, <2>4 DEF CommandInv
<1>7. CASE table[j].asks # "display"
  <2>1. stage' = "told" /\ table[j].asks \in {"help", "version"}
    BY <1>4, <1>7, CommandLineAssumption
  <2>2. Asks(n)
    BY <1>1, <1>3, <1>5, <2>1 DEF Asks
  <2>3. Asks(n)'
    BY <1>1, <2>2, SameArguments
  <2> QED
    BY <1>1, <2>1, <2>3 DEF CommandInv
<1> QED
  BY <1>6, <1>7

\* What is left after the options is nothing, or too much.
LEMMA RestInv ==
    ASSUME CommandInv, TooManyArguments \/ Connect
    PROVE  CommandInv'
<1>1. /\ UNCHANGED <<file, args, i, display_name>> /\ stage = "arguments"
      /\ \/ stage' = "connect" /\ i = Len(args)
         \/ stage' = "failed" /\ i < Len(args)
  BY DEF TooManyArguments, Connect, vars
<1>2. PICK n \in 0 .. Len(args) : Stopped(n)
  BY <1>1 DEF CommandInv
<1>3. n \in Nat /\ Len(args) \in Nat
  BY WordTypes DEF CommandInv
<1>4. CASE stage' = "connect"
  <2>1. Stopped(n)'
    BY <1>1, <1>2 DEF Stopped, Displays, Named
  <2> QED
    BY <1>1, <1>4, <2>1 DEF CommandInv
<1>5. CASE stage' = "failed"
  <2>1. ~ Fits(n) /\ ~ Asks(n) /\ ~ Displays(n + 1) /\ Displays(n)
    BY <1>1, <1>2, <1>3, <1>5, PairsEnd DEF CommandInv, Stopped
  <2>2. \A m \in Nat : ~ Fits(m) /\ ~ Asks(m)
    BY <1>3, <2>1, OnePlace DEF CommandInv
  <2>3. \A m \in 0 .. Len(args') : ~ Fits(m)' /\ ~ Asks(m)'
    BY <1>1, <1>3, <2>2, SameArguments
  <2> QED
    BY <1>1, <1>5, <2>3 DEF CommandInv
<1> QED
  BY <1>1, <1>4, <1>5

\* The configuration is not loaded again.
LEMMA LoadInv ==
    ASSUME CommandInv, load_config \/ UNCHANGED allvars
    PROVE  CommandInv'
<1>1. file' = file /\ UNCHANGED <<args, i, display_name, stage>>
  BY DEF load_config, ConfigNext, NoConfigFile, handle_line, EndOfFile, GetOption, sconf_free,
     commandline, allvars, vars
<1>2. \A n : /\ Parsing(n)' = Parsing(n) /\ Stopped(n)' = Stopped(n)
             /\ Fits(n)' = Fits(n) /\ Asks(n)' = Asks(n)
  BY <1>1 DEF Parsing, Stopped, Displays, Named, Fits, Asks
<1> QED
  BY <1>1, <1>2 DEF CommandInv

LEMMA CommandInvariant == MainSpec => []CommandInv
<1>1. CommandInv /\ [MainNext]_allvars => CommandInv'
  BY NoMoreOptionsInv, OptionErrorInv, OptionHandlerInv, RestInv, LoadInv DEF MainNext
<1> QED
  BY <1>1, CommandInit, PTL DEF MainSpec

-----------------------------------------------------------------------------
(* The theorems *)

\* Whatever the arguments are, the program connects, to the display named last,
\* exactly if they are pairs of -display and a name (main.c:268-275).
THEOREM Connects == MainSpec => []ConnectsAsAsked
<1>1. CommandInv => ConnectsAsAsked
  <2> SUFFICES ASSUME CommandInv PROVE ConnectsAsAsked
    OBVIOUS
  <2>1. ASSUME stage = "connect"
        PROVE  \E n \in 0 .. Len(args) : Fits(n) /\ Named(n)
    <3>1. PICK n \in 0 .. Len(args) : Stopped(n)
      BY <2>1 DEF CommandInv
    <3>2. n \in Nat /\ i = Len(args)
      BY <2>1, WordTypes DEF CommandInv
    <3> QED
      BY <3>1, <3>2, PairsEnd DEF CommandInv, Stopped
  <2>2. ASSUME stage = "told", NEW m \in 0 .. Len(args), Fits(m)
        PROVE  FALSE
    <3>1. PICK n \in 0 .. Len(args) : Asks(n)
      BY <2>2 DEF CommandInv
    <3>2. n \in Nat /\ m \in Nat /\ Len(args) \in Nat
      BY WordTypes DEF CommandInv
    <3>3. /\ args[2 * n + 1] \in Seq(ToSet(args[2 * n + 1])) /\ IsOption(args[2 * n + 1])
          /\ 2 * n < Len(args) /\ ~ Means(args[2 * n + 1], "display")
      <4>1. 2 * n < Len(args) /\ args[2 * n + 1] \in Seq(ToSet(args[2 * n + 1]))
        BY <3>1, <3>2, WordTypes DEF Asks, CommandInv
      <4> QED
        BY <3>1, <4>1, OneMeaning DEF Asks, Means
    <3>4. ~ Displays(n + 1)
      <4>1. n + 1 \in 1 .. n + 1 /\ 2 * (n + 1) - 1 = 2 * n + 1
        BY <3>2
      <4> QED
        BY <3>3, <4>1 DEF Displays
    <3>5. m = n
      BY <2>2, <3>1, <3>2, <3>4, OnePlace DEF CommandInv, Asks
    <3> DEFINE rest == SubSeq(args, 2 * n + 1, Len(args))
    <3>6. Len(rest) >= 1 /\ rest[1] = args[2 * n + 1]
      <4>1. args \in Seq(ToSet(args))
        BY CommandLineAssumption DEF CommandInv
      <4> QED
        BY <3>2, <3>3, <4>1
    <3>7. rest \in {<<>>, << <<Dash, Dash>> >>}
      BY <2>2, <3>5 DEF Fits
    <3> HIDE DEF rest
    <3>8. rest # <<>> /\ rest # << <<Dash, Dash>> >>
      BY <3>3, <3>6 DEF IsOption
    <3> QED
      BY <3>7, <3>8
  <2>3. stage = "failed" => \A m \in 0 .. Len(args) : ~ Fits(m)
    BY DEF CommandInv
  <2> QED
    BY <2>1, <2>2, <2>3 DEF ConnectsAsAsked, Fits, Named
<1> QED
  BY <1>1, CommandInvariant, PTL

\* Once the options are parsed, help or the version was printed exactly if it was
\* asked for, after however many displays (opt.c:38-99, main.c:172-203).  Nothing
\* is said of a configuration that cannot be loaded: no argument is looked at then.
THEOREM Answers == MainSpec => []AnswersAsked
<1>1. CommandInv => AnswersAsked
  <2> SUFFICES ASSUME CommandInv PROVE AnswersAsked
    OBVIOUS
  <2>1. ASSUME stage \in {"arguments", "connect"}, NEW m \in 0 .. Len(args), Asks(m)
        PROVE  FALSE
    <3>1. PICK n \in 0 .. Len(args) : Stopped(n)
      BY <2>1 DEF CommandInv
    <3>2. n \in Nat /\ m \in Nat
      BY WordTypes DEF CommandInv
    <3>3. ~ Asks(n) /\ ~ Displays(n + 1) /\ Displays(n)
      BY <3>1, <3>2, PairsEnd DEF CommandInv, Stopped
    <3> QED
      BY <2>1, <3>2, <3>3, OnePlace DEF CommandInv
  <2>2. /\ stage \in {"options", "arguments", "told", "failed", "connect"}
        /\ stage = "told" => \E n \in 0 .. Len(args) : Asks(n)
        /\ stage = "failed" => \A m \in 0 .. Len(args) : ~ Asks(m)
    BY DEF CommandInv
  <2> QED
    BY <2>1, <2>2 DEF AnswersAsked, AskedFor
<1> QED
  BY <1>1, CommandInvariant, PTL

-----------------------------------------------------------------------------
(* The configuration, loaded by main *)

\* What main does before and after load_config leaves the configuration alone, so
\* that what is proved of OptionList holds of the whole program: the options are in
\* order, and the settings are what the file says, when it connects
\* (main.c:262-284), the opacity in its range if the file has numbers only.
THEOREM SettingsOfMain ==
    MainSpec => /\ [](ListSound /\ NamesUnique /\ SettingsSane /\ SettingsFollowFile)
                /\ ConfigImplemented
                /\ NumbersOnly => []OpacityInRange
<1>1. MainInit => Init
  BY DEF MainInit
<1>2. [MainNext]_allvars => [ConfigNext]_vars
  BY DEF MainNext, load_config, NoMoreOptions, OptionError, option_handler, Options,
     TooManyArguments, Connect, allvars
<1>3. MainSpec => Spec
  BY <1>1, <1>2, PTL DEF MainSpec, Spec
<1> QED
  BY <1>3, OptionsInMemory, OneOptionPerName, SettingsStaySane, SettingsAsWritten,
     OptionListImplementsConfig, OpacityOfNumbers, PTL

=============================================================================
