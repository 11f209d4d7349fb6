------------------------------ MODULE Startup ------------------------------
(***************************************************************************)
(* How covoar's main finds out what to do: getopt takes the command line,  *)
(* -C reads a configuration file on the way, check_configuration lets the  *)
(* file's options override the command line's, the remaining arguments     *)
(* become executables and coverage files, the symbols of interest are      *)
(* loaded, and every coverage file is read into an executable's maps.      *)
(* The executables are disassembled in between (module Covoar).            *)
(*                                                                         *)
(* A name or value is the sequence of its letters or parts, of which only  *)
(* the number and the equality matter; the empty sequence stands for NULL. *)
(* A target's name is split at its hyphens.  Operators named Slip... are   *)
(* wrong variants of the definition that follows them.                     *)
(***************************************************************************)
EXTENDS Integers, Sequences, FiniteSets, SequencesExt

CONSTANT Inputs  (* command lines, with the files they name *)

NULL == << >>

\* The options a configuration file may set, and those getopt sets directly.
OptionNames ==
  {"explanations", "format", "symbolsFile", "outputDirectory",
   "executableExtension", "coverageExtension", "gcnosFile", "target", "verbose",
   "projectName"}
Letter ==
  [e |-> "executableExtension", c |-> "coverageExtension", g |-> "gcnosFile",
   E |-> "explanations", f |-> "format", s |-> "symbolsFile", T |-> "target",
   O |-> "outputDirectory", p |-> "projectName", L |-> "dynamicLibrary"]
SettingNames == OptionNames \cup {"dynamicLibrary"}

Formats == {<< "QEMU" >>, << "RTEMS" >>, << "Skyeye" >>, << "TSIM" >>}
FactoryTable == {"arm", "i386", "lm32", "m68k", "powerpc", "sparc", "TBD"}

(***************************************************************************)
(* What one fgets of the configuration file delivers, without comment and  *)
(* trailing blanks: whether the newline came with it (not when the line is *)
(* too long, nor at a last line that lacks it), the first word, whether a  *)
(* blank separates it from the "=", whether there is one, and the value.   *)
(***************************************************************************)
LineType   == [newline : BOOLEAN, name : STRING, blank : BOOLEAN, equals : BOOLEAN,
               value : Seq(STRING)]
OptionType == [letter : STRING, arg : Seq(STRING), file : Nat]

ASSUME InputAssumption ==
  \A in \in Inputs :
    /\ in.options \in Seq(OptionType)
    /\ in.configs \in Seq(Seq(LineType))
    /\ \A k \in DOMAIN in.options : in.options[k].file <= Len(in.configs)
    /\ in.args \in Seq(Seq(STRING)) /\ in.readable \subseteq Seq(STRING)
    /\ in.words \in Seq(STRING)   (* of the symbols file: symbol, library, ... *)

VARIABLES
  in,            (* the command line and the files                          *)
  phase,
  next,          (* the option, argument, word or coverage file in turn     *)
  line,          (* the line of the configuration file                      *)
  option,        (* FileReader's table of options                           *)
  setting,       (* the global variables the options end up in              *)
  single,        (* singleExecutable                                        *)
  executables, coverageFiles,    (* the two lists main builds                *)
  symbols,       (* SymbolsToAnalyze                                        *)
  eitr,          (* main's iterator over the executables                    *)
  read           (* history: the coverage files read, and into what         *)

lists == << executables, coverageFiles >>
vars  == << in, phase, next, line, option, setting, single, lists, symbols, eitr,
            read >>

Init ==
  /\ in \in Inputs
  /\ phase = "options" /\ next = 1 /\ line = 1
  /\ option = [n \in OptionNames |-> NULL]
  /\ setting = [n \in SettingNames |->
                  IF n = "outputDirectory" THEN << "." >> ELSE NULL]
  /\ single = NULL
  /\ executables = << >> /\ coverageFiles = << >> /\ symbols = {}
  /\ eitr = 1 /\ read = << >>
-----------------------------------------------------------------------------
(***************************************************************************)
(* The command line.                                                       *)
(***************************************************************************)
Option == in.options[next]
MoreOptions == phase = "options" /\ next <= Len(in.options)

SetOption ==
  /\ MoreOptions /\ Option.letter \in DOMAIN Letter
  /\ setting' = [setting EXCEPT ![Letter[Option.letter]] = Option.arg]
  /\ next' = next + 1
  /\ UNCHANGED << in, phase, line, option, single, lists, symbols, eitr, read >>

SetSingle ==
  /\ MoreOptions /\ Option.letter = "1"
  /\ single' = Option.arg
  /\ next' = next + 1
  /\ UNCHANGED << in, phase, line, option, setting, lists, symbols, eitr, read >>

SetVerbose ==
  /\ MoreOptions /\ Option.letter = "v"
  /\ setting' = [setting EXCEPT !["verbose"] = << "yes" >>]
  /\ next' = next + 1
  /\ UNCHANGED << in, phase, line, option, single, lists, symbols, eitr, read >>

\* usage and exit.
BadOption ==
  /\ MoreOptions /\ Option.letter \notin DOMAIN Letter \cup {"1", "v", "C"}
  /\ phase' = "exited"
  /\ UNCHANGED << in, next, line, option, setting, single, lists, symbols, eitr, read >>

\* FileReader::processFile: a file that cannot be opened (0) is complained of.
OpenConfig ==
  /\ MoreOptions /\ Option.letter = "C"
  /\ IF Option.file = 0
       THEN next' = next + 1 /\ UNCHANGED << phase, line >>
       ELSE phase' = "config" /\ line' = 1 /\ UNCHANGED next
  /\ UNCHANGED << in, option, setting, single, lists, symbols, eitr, read >>

\* A line sets an option if its first word is the name of one; without a blank
\* the "=" and what follows belong to that word.  All other lines are skipped.
SlipSets(l) == l.blank /\ l.equals /\ l.value # NULL /\ l.name \in OptionNames
Sets(l) ==
  /\ l.newline
  /\ l.blank /\ l.equals /\ l.value # NULL
  /\ l.name \in OptionNames

Config == in.configs[Option.file]

ConfigLine ==
  /\ phase = "config" /\ line <= Len(Config)
  /\ option' = IF Sets(Config[line])
                 THEN [option EXCEPT ![Config[line].name] = Config[line].value]
                 ELSE option
  /\ line' = line + 1
  /\ UNCHANGED << in, phase, next, setting, single, lists, symbols, eitr, read >>

EndConfig ==
  /\ phase = "config" /\ line > Len(Config)
  /\ phase' = "options" /\ next' = next + 1
  /\ UNCHANGED << in, line, option, setting, single, lists, symbols, eitr, read >>

\* GET_STRING and GET_BOOL: the file's value, if there is one, wins; verbose can
\* only be switched on.
IsTrue(v) == v \in {<< "true" >>, << "TRUE" >>, << "yes" >>, << "YES" >>}
Effective(n) ==
  IF n \notin OptionNames THEN setting[n]
  ELSE IF n = "verbose"
    THEN IF IsTrue(option[n]) THEN << "yes" >> ELSE setting[n]
    ELSE IF option[n] # NULL THEN option[n] ELSE setting[n]

\* CoverageFormatToEnum exits when it does not know the format.
CheckConfiguration ==
  /\ phase = "options" /\ next > Len(in.options)
  /\ setting' = [n \in SettingNames |-> Effective(n)]
  /\ phase' = IF Effective("format") \in Formats \cup {NULL} THEN "arguments" ELSE "exited"
  /\ next' = 1
  /\ UNCHANGED << in, line, option, single, lists, symbols, eitr, read >>
-----------------------------------------------------------------------------
(***************************************************************************)
(* The arguments.  With -1 they are coverage files, otherwise executables  *)
(* whose coverage files are named after them.                              *)
(***************************************************************************)
Readable(name) == name \in in.readable
MoreArguments  == phase = "arguments" /\ next <= Len(in.args)
Argument       == in.args[next]

TakeCoverageFile ==
  /\ MoreArguments /\ single # NULL /\ Readable(single)
  /\ coverageFiles' = IF Readable(Argument) THEN Append(coverageFiles, Argument)
                                            ELSE coverageFiles
  /\ next' = next + 1
  /\ UNCHANGED << in, phase, line, option, setting, single, executables, symbols,
                  eitr, read >>

\* The extension is cut off by its length, whatever the letters there are.  A
\* name that is too short, or no extension to put there, ends the program.
Cut(name)          == Len(name) - Len(setting["executableExtension"])
CoverageName(name) == SubSeq(name, 1, Cut(name)) \o setting["coverageExtension"]
Unnamable(name)    == Cut(name) < 0 \/ setting["coverageExtension"] = NULL

SlipTakeExecutable ==
  /\ MoreArguments /\ single = NULL
  /\ ~(Readable(Argument) /\ Unnamable(Argument))
  /\ executables' = IF Readable(Argument) THEN Append(executables, Argument) ELSE executables
  /\ coverageFiles' = IF Readable(Argument) /\ Readable(CoverageName(Argument))
                        THEN Append(coverageFiles, CoverageName(Argument))
                        ELSE coverageFiles
  /\ next' = next + 1
  /\ UNCHANGED << in, phase, line, option, setting, single, symbols, eitr, read >>
TakeExecutable ==
  /\ MoreArguments /\ single = NULL
  /\ ~(Readable(Argument) /\ Unnamable(Argument))
  /\ IF Readable(Argument) /\ Readable(CoverageName(Argument))
       THEN /\ executables' = Append(executables, Argument)
            /\ coverageFiles' = Append(coverageFiles, CoverageName(Argument))
       ELSE UNCHANGED lists
  /\ next' = next + 1
  /\ UNCHANGED << in, phase, line, option, setting, single, symbols, eitr, read >>

CannotName ==
  /\ MoreArguments /\ single = NULL
  /\ Readable(Argument) /\ Unnamable(Argument)
  /\ phase' = "crashed"
  /\ UNCHANGED << in, next, line, option, setting, single, lists, symbols, eitr, read >>

\* The single executable is added only when it has a coverage file.
ArgumentsDone ==
  /\ phase = "arguments"
  /\ next > Len(in.args) \/ (single # NULL /\ ~Readable(single))
  /\ executables' = IF single # NULL /\ coverageFiles # << >> THEN << single >>
                                                              ELSE executables
  /\ phase' = IF executables' = << >> THEN "exited" ELSE "validate"
  /\ UNCHANGED << in, next, line, option, setting, single, coverageFiles, symbols,
                  eitr, read >>
-----------------------------------------------------------------------------
(***************************************************************************)
(* Validation, the target and the symbols of interest.                     *)
(***************************************************************************)
Missing(n) == setting[n] = NULL
Cpu        == IF Missing("target") THEN "" ELSE Head(setting["target"])

Refuse ==
  /\ phase = "validate"
  /\ \/ \E n \in {"target", "format", "symbolsFile"} : Missing(n)
     \/ Cpu \notin FactoryTable
     \/ ~Readable(setting["symbolsFile"])
  /\ phase' = "exited"
  /\ UNCHANGED << in, next, line, option, setting, single, lists, symbols, eitr, read >>

\* TargetFactory has an entry without a constructor.
NoConstructor ==
  /\ phase = "validate"
  /\ \A n \in {"target", "format", "symbolsFile"} : ~Missing(n)
  /\ Cpu = "TBD"
  /\ phase' = "crashed"
  /\ UNCHANGED << in, next, line, option, setting, single, lists, symbols, eitr, read >>

Accept ==
  /\ phase = "validate"
  /\ \A n \in {"target", "format", "symbolsFile"} : ~Missing(n)
  /\ Cpu \in FactoryTable \ {"TBD"}
  /\ Readable(setting["symbolsFile"])
  /\ phase' = "symbols" /\ next' = 1
  /\ UNCHANGED << in, line, option, setting, single, lists, symbols, eitr, read >>

\* DesiredSymbols::load takes two words at a time and keeps the first.
LoadSymbol ==
  /\ phase = "symbols" /\ next <= Len(in.words)
  /\ symbols' = symbols \cup {in.words[next]}
  /\ next' = next + 2
  /\ UNCHANGED << in, phase, line, option, setting, single, lists, eitr, read >>

SymbolsDone ==
  /\ phase = "symbols" /\ next > Len(in.words)
  /\ phase' = "reading" /\ next' = 1
  /\ UNCHANGED << in, line, option, setting, single, lists, symbols, eitr, read >>
-----------------------------------------------------------------------------
(***************************************************************************)
(* The loop over the coverage files; with a single executable eitr stays.  *)
(***************************************************************************)
SlipReadCoverage ==
  /\ phase = "reading" /\ next <= Len(coverageFiles)
  /\ read' = Append(read, << executables[eitr], coverageFiles[next] >>)
  /\ next' = next + 1
  /\ UNCHANGED << in, phase, line, option, setting, single, lists, symbols, eitr >>
ReadCoverage ==
  /\ phase = "reading" /\ next <= Len(coverageFiles)
  /\ read' = Append(read, << executables[eitr], coverageFiles[next] >>)
  /\ eitr' = IF single = NULL THEN eitr + 1 ELSE eitr
  /\ next' = next + 1
  /\ UNCHANGED << in, phase, line, option, setting, single, lists, symbols >>

Finish ==
  /\ phase = "reading" /\ next > Len(coverageFiles)
  /\ phase' = "done"
  /\ UNCHANGED << in, next, line, option, setting, single, lists, symbols, eitr, read >>

Next ==
  \/ SetOption \/ SetSingle \/ SetVerbose \/ BadOption
  \/ OpenConfig \/ ConfigLine \/ EndConfig \/ CheckConfiguration
  \/ TakeCoverageFile \/ TakeExecutable \/ CannotName \/ ArgumentsDone
  \/ Refuse \/ NoConstructor \/ Accept
  \/ LoadSymbol \/ SymbolsDone
  \/ ReadCoverage \/ Finish

Spec == Init /\ [][Next]_vars
-----------------------------------------------------------------------------
(***************************************************************************)
(* Types.  The iterator over the executables is never followed past the    *)
(* last of them, and there is a coverage file for each.                    *)
(***************************************************************************)
TypeOK ==
  /\ phase \in {"options", "config", "arguments", "validate", "symbols", "reading",
                "done", "exited", "crashed"}
  /\ DOMAIN option = OptionNames /\ DOMAIN setting = SettingNames
  /\ next \in Nat \ {0} /\ line \in Nat \ {0}
  /\ phase = "reading" /\ next <= Len(coverageFiles) => eitr \in DOMAIN executables
  /\ single = NULL => Len(executables) = Len(coverageFiles)
  /\ read \in Seq(ToSet(executables) \X ToSet(coverageFiles))

(***************************************************************************)
(* What was asked for is what covoar works with, however the options are   *)
(* spread over the command line and several configuration files: the last  *)
(* whole line "name = value" of the last file that has one, else the last  *)
(* such option of the command line; and every first word of a pair in the  *)
(* symbols file is analysed (ConfigFile.cc 26-160, check_configuration).   *)
(***************************************************************************)
Reads(k)    == in.options[k].letter = "C" /\ in.options[k].file # 0
FileAt(k)   == in.configs[in.options[k].file]
SetIn(k, n) == {j \in DOMAIN FileAt(k) : LET l == FileAt(k)[j] IN
                  l.name = n /\ l.newline /\ l.blank /\ l.equals /\ l.value # NULL}
SetBy(n)    == {k \in DOMAIN in.options : n \in OptionNames /\ Reads(k) /\ SetIn(k, n) # {}}
GivenBy(n)  == {k \in DOMAIN in.options : \E x \in DOMAIN Letter :
                  Letter[x] = n /\ in.options[k].letter = x}
LastOf(S)   == CHOOSE k \in S : \A j \in S : j <= k
LastSet(n)  == LET k == LastOf(SetBy(n)) IN FileAt(k)[LastOf(SetIn(k, n))].value
LastGiven(n) == in.options[LastOf(GivenBy(n))].arg
Default(n)  == IF n = "outputDirectory" THEN << "." >> ELSE NULL

AskedFor ==
  phase \in {"arguments", "validate", "symbols", "reading", "done"} =>
    /\ \A n \in SettingNames \ {"verbose"} :
         setting[n] = IF SetBy(n) # {} THEN LastSet(n)
                      ELSE IF GivenBy(n) # {} THEN LastGiven(n) ELSE Default(n)
    /\ phase \in {"reading", "done"} =>
         symbols = {in.words[k] : k \in {j \in DOMAIN in.words : j % 2 = 1}}

(***************************************************************************)
(* Every coverage file is read into the executable it belongs to, each     *)
(* once and in order, whichever of the files named or derived cannot be    *)
(* read: main builds two lists and walks them with two iterators           *)
(* (covoar.cc 195-277 against 404-429).                                    *)
(***************************************************************************)
Own(a)      == SubSeq(a, 1, Len(a) - Len(setting["executableExtension"]))
                 \o setting["coverageExtension"]
Usable(a)   == {a, IF single = NULL THEN Own(a) ELSE a} \subseteq in.readable
UsableTo(k) == {j \in 1 .. k : Usable(in.args[j])}
Pair(a)     == IF single = NULL THEN << a, Own(a) >> ELSE << single, a >>

PairsExact ==
  phase = "done" =>
    /\ Len(read) = Cardinality(UsableTo(Len(in.args)))
    /\ \A k \in UsableTo(Len(in.args)) :
         read[Cardinality(UsableTo(k))] = Pair(in.args[k])
=============================================================================
