--------------------------- MODULE Startup_proofs ---------------------------
(***************************************************************************)
(* Proofs about Startup for every command line, every configuration and    *)
(* symbols file and every choice of readable files.                        *)
(***************************************************************************)
EXTENDS Startup, FiniteSetTheorems, SequenceTheorems, TLAPS

Part   == STRING \cup {"yes", "."}
Value  == Seq(Part)
Phases == {"options", "config", "arguments", "validate", "symbols", "reading",
           "done", "exited", "crashed"}

(***************************************************************************)
(* The variables in their types.  A configuration file is read for the     *)
(* option in turn; the iterator over the executables and the history stand *)
(* still before the coverage files are read, and the lists are empty       *)
(* before the arguments are.                                               *)
(***************************************************************************)
Types ==
  /\ in \in Inputs /\ phase \in Phases
  /\ option \in [OptionNames -> Value] /\ setting \in [SettingNames -> Value]
  /\ single \in Value /\ next \in Nat \ {0} /\ line \in Nat \ {0}
  /\ executables \in Seq(Value) /\ coverageFiles \in Seq(Value)
  /\ read \in Seq(ToSet(executables) \X ToSet(coverageFiles))
  /\ phase = "config" => next <= Len(in.options) /\ Option.letter = "C" /\ Option.file # 0
  /\ phase \notin {"reading", "done"} => eitr = 1 /\ read = << >>
  /\ phase \in {"options", "config"} => executables = << >> /\ coverageFiles = << >>

(***************************************************************************)
(* What the assumption on the inputs says of the input at hand.            *)
(***************************************************************************)
LEMMA InputFacts ==
  ASSUME in \in Inputs
  PROVE  /\ Len(in.options) \in Nat /\ DOMAIN in.options = 1 .. Len(in.options)
         /\ \A k \in DOMAIN in.options :
              /\ in.options[k].arg \in Value /\ in.options[k].file \in 0 .. Len(in.configs)
              /\ in.options[k].file # 0 =>
                   /\ FileAt(k) \in Seq(LineType)
                   /\ Len(FileAt(k)) \in Nat /\ DOMAIN FileAt(k) = 1 .. Len(FileAt(k))
                   /\ \A j \in DOMAIN FileAt(k) : FileAt(k)[j].value \in Value
         /\ Len(in.args) \in Nat /\ DOMAIN in.args = 1 .. Len(in.args)
         /\ \A k \in DOMAIN in.args : in.args[k] \in Value
         /\ in.words \in Seq(STRING) /\ Len(in.words) \in Nat
         /\ DOMAIN in.words = 1 .. Len(in.words)
<1>1. /\ in.options \in Seq(OptionType) /\ in.configs \in Seq(Seq(LineType))
      /\ \A k \in DOMAIN in.options : in.options[k].file <= Len(in.configs)
      /\ in.args \in Seq(Seq(STRING)) /\ in.words \in Seq(STRING)
  BY InputAssumption
<1>2. /\ Len(in.options) \in Nat /\ DOMAIN in.options = 1 .. Len(in.options)
      /\ Len(in.args) \in Nat /\ DOMAIN in.args = 1 .. Len(in.args)
      /\ Len(in.words) \in Nat /\ DOMAIN in.words = 1 .. Len(in.words)
      /\ Len(in.configs) \in Nat
  BY <1>1, LenProperties
<1> DEFINE S == Seq(STRING)
<1>0. \A x \in S : x \in Value
  <2>1. STRING \subseteq Part
    BY DEF Part
  <2>2. QED
    BY <2>1, SeqMonotonic DEF Value
<1>3. \A k \in DOMAIN in.args : in.args[k] \in Value
  <2> HIDE DEF S
  <2>1. in.args \in Seq(S)
    BY <1>1 DEF S
  <2>2. QED
    BY <1>0, <1>2, <2>1, ElementOfSeq
<1>4. ASSUME NEW k \in DOMAIN in.options
      PROVE  in.options[k].arg \in Value /\ in.options[k].file \in 0 .. Len(in.configs)
  <2>1. in.options[k] \in OptionType
    BY <1>1, <1>2, <1>4, ElementOfSeq
  <2>2. in.options[k].arg \in Seq(STRING) /\ in.options[k].file \in Nat
    BY <2>1 DEF OptionType
  <2>3. in.options[k].file <= Len(in.configs)
    BY <1>1, <1>4
  <2>4. QED
    BY <1>0, <1>2, <2>2, <2>3
<1>5. ASSUME NEW k \in DOMAIN in.options, in.options[k].file # 0
      PROVE  /\ FileAt(k) \in Seq(LineType)
             /\ Len(FileAt(k)) \in Nat /\ DOMAIN FileAt(k) = 1 .. Len(FileAt(k))
             /\ \A j \in DOMAIN FileAt(k) : FileAt(k)[j].value \in Value
  <2>1. in.options[k].file \in 1 .. Len(in.configs)
    BY <1>2, <1>4, <1>5
  <2>2. FileAt(k) \in Seq(LineType)
    BY <1>1, <2>1, ElementOfSeq DEF FileAt
  <2>3. Len(FileAt(k)) \in Nat /\ DOMAIN FileAt(k) = 1 .. Len(FileAt(k))
    BY <2>2, LenProperties
  <2>4. ASSUME NEW j \in DOMAIN FileAt(k) PROVE FileAt(k)[j].value \in Value
    <3>1. FileAt(k)[j] \in LineType
      BY <2>2, <2>3, ElementOfSeq
    <3>2. QED
      BY <1>0, <3>1 DEF LineType
  <2>5. QED
    BY <2>2, <2>3, <2>4
<1>6. QED
  BY <1>1, <1>2, <1>3, <1>4, <1>5

\* The constant values a setting may get, and changing one setting.
LEMMA ValueFacts ==
  /\ NULL \in Value /\ << "yes" >> \in Value /\ << "." >> \in Value
  /\ \A n, f : f \in [SettingNames -> Value] =>
       \A v \in Value : [f EXCEPT ![n] = v] \in [SettingNames -> Value]
<1>1. << >> \in Seq(Part)
  BY EmptySeq
<1>2. \A x \in Part : << x >> \in Seq(Part)
  OBVIOUS
<1>3. "yes" \in Part /\ "." \in Part
  BY DEF Part
<1>4. << "yes" >> \in Seq(Part)
  BY ONLY <1>2, <1>3
<1>5. << "." >> \in Seq(Part)
  BY ONLY <1>2, <1>3
<1>6. \A n, f : f \in [SettingNames -> Value] =>
        \A v \in Value : [f EXCEPT ![n] = v] \in [SettingNames -> Value]
  OBVIOUS
<1>7. QED
  BY <1>1, <1>4, <1>5, <1>6 DEF NULL, Value

\* The variables start in their types.
LEMMA InitTypes == Init => Types
<1>1. SUFFICES ASSUME Init PROVE Types
  OBVIOUS
<1>2. NULL \in Value /\ << "." >> \in Value
  BY ValueFacts
<1>3. << >> \in Seq(Value) /\ << >> \in Seq(ToSet(executables) \X ToSet(coverageFiles))
  BY EmptySeq
<1>4. /\ option = [n \in OptionNames |-> NULL]
      /\ setting = [n \in SettingNames |-> IF n = "outputDirectory" THEN << "." >> ELSE NULL]
      /\ in \in Inputs /\ phase = "options" /\ next = 1 /\ line = 1 /\ single = NULL
      /\ executables = << >> /\ coverageFiles = << >> /\ eitr = 1 /\ read = << >>
  BY <1>1 DEF Init
<1>5. option \in [OptionNames -> Value] /\ setting \in [SettingNames -> Value]
  BY <1>2, <1>4
<1>6. QED
  BY <1>2, <1>3, <1>4, <1>5 DEF Types, Phases

(***************************************************************************)
(* The steps over options and configuration files, in their types.         *)
(***************************************************************************)
Optioning == \/ SetOption \/ SetSingle \/ SetVerbose \/ BadOption \/ OpenConfig \/ ConfigLine
             \/ EndConfig \/ CheckConfiguration

\* They keep the variables in their types.
LEMMA OptioningTypes ==
  ASSUME Types, Optioning
  PROVE  Types'
<1>1. /\ in' = in /\ UNCHANGED lists /\ read' = read /\ eitr' = eitr /\ in \in Inputs
      /\ executables' = executables /\ coverageFiles' = coverageFiles
      /\ phase \in {"options", "config"}
      /\ phase' \in Phases \ {"reading", "done"}
  BY DEF Optioning, SetOption, SetSingle, SetVerbose, BadOption, OpenConfig, ConfigLine,
         EndConfig, CheckConfiguration, MoreOptions, lists, Phases, Types
<1>2. /\ executables' \in Seq(Value) /\ coverageFiles' \in Seq(Value)
      /\ read' \in Seq(ToSet(executables) \X ToSet(coverageFiles))'
      /\ eitr' = 1 /\ read' = << >> /\ executables' = << >> /\ coverageFiles' = << >>
  BY <1>1 DEF Types
<1>3. NULL \in Value /\ << "yes" >> \in Value
  BY ValueFacts
<1>4. /\ option \in [OptionNames -> Value] /\ setting \in [SettingNames -> Value]
      /\ single \in Value /\ next \in Nat \ {0} /\ line \in Nat \ {0}
      /\ phase = "config" => next <= Len(in.options) /\ Option.letter = "C" /\ Option.file # 0
  BY DEF Types
<1>5. next <= Len(in.options) =>
        /\ next \in DOMAIN in.options /\ Option.arg \in Value
        /\ Option.file # 0 =>
             /\ Config = FileAt(next)
             /\ \A j \in 1 .. Len(Config) : Config[j].value \in Value
  BY <1>1, <1>4, InputFacts DEF Option, Config, FileAt
<1>6. /\ option' \in [OptionNames -> Value] /\ setting' \in [SettingNames -> Value]
      /\ single' \in Value /\ next' \in Nat \ {0} /\ line' \in Nat \ {0}
      /\ (phase = "config" => next <= Len(in.options) /\ Option.letter = "C" /\ Option.file # 0)'
  <2>1. CASE SetOption
    <3>1. setting' = [setting EXCEPT ![Letter[Option.letter]] = Option.arg] /\ Option.arg \in Value
      BY <1>4, <1>5, <2>1 DEF SetOption, MoreOptions
    <3>2. setting' \in [SettingNames -> Value]
      BY <1>4, <3>1, ValueFacts
    <3>3. QED
      BY <1>1, <1>4, <2>1, <3>2 DEF SetOption, MoreOptions
  <2>2. CASE SetSingle
    BY <1>1, <1>4, <1>5, <2>2 DEF SetSingle, MoreOptions
  <2>3. CASE SetVerbose
    <3>1. setting' = [setting EXCEPT !["verbose"] = << "yes" >>]
      BY <2>3 DEF SetVerbose
    <3>2. setting' \in [SettingNames -> Value]
      BY <1>3, <1>4, <3>1, ValueFacts
    <3>3. QED
      BY <1>1, <1>4, <2>3, <3>2 DEF SetVerbose, MoreOptions
  <2>4. CASE BadOption
    BY <1>1, <1>4, <2>4 DEF BadOption, MoreOptions
  <2>5. CASE OpenConfig
    BY <1>1, <1>4, <2>5 DEF OpenConfig, MoreOptions, Option
  <2>6. CASE ConfigLine
    <3>1. Config[line].value \in Value
      BY <1>4, <1>5, <2>6, InputFacts DEF ConfigLine
    <3>2. option' \in [OptionNames -> Value]
      BY <1>4, <2>6, <3>1 DEF ConfigLine
    <3>3. QED
      BY <1>1, <1>4, <2>6, <3>2 DEF ConfigLine, Option
  <2>7. CASE EndConfig
    BY <1>1, <1>4, <2>7 DEF EndConfig
  <2>8. CASE CheckConfiguration
    <3>1. \A n \in SettingNames : Effective(n) \in Value
      BY <1>3, <1>4 DEF Effective
    <3>2. QED
      BY <1>1, <1>4, <2>8, <3>1 DEF CheckConfiguration
  <2>9. QED
    BY <2>1, <2>2, <2>3, <2>4, <2>5, <2>6, <2>7, <2>8 DEF Optioning
<1>7. QED
  BY <1>1, <1>2, <1>6 DEF Types

(***************************************************************************)
(* A coverage file's name is one, when its executable's is long enough.    *)
(***************************************************************************)
LEMMA NameType ==
  ASSUME Types, NEW name \in Value, ~Unnamable(name)
  PROVE  CoverageName(name) \in Value
<1>1. /\ setting["executableExtension"] \in Seq(Part)
      /\ setting["coverageExtension"] \in Seq(Part) /\ name \in Seq(Part)
  BY DEF Types, SettingNames, OptionNames, Value
<1>2. Len(name) \in Nat /\ Len(setting["executableExtension"]) \in Nat /\ DOMAIN name = 1 .. Len(name)
  BY <1>1, LenProperties
<1>3. Cut(name) \in Int /\ Cut(name) <= Len(name)
  BY <1>2 DEF Cut
<1>4. \A i \in 1 .. Cut(name) : name[i] \in Part
  BY <1>1, <1>2, <1>3, ElementOfSeq
<1>5. SubSeq(name, 1, Cut(name)) \in Seq(Part)
  BY <1>3, <1>4, SubSeqProperties
<1>6. QED
  BY <1>1, <1>5, ConcatProperties DEF CoverageName, Value

(***************************************************************************)
(* The steps over the arguments, in their types.                           *)
(***************************************************************************)
Arguing == TakeCoverageFile \/ TakeExecutable \/ CannotName \/ ArgumentsDone

\* They keep the variables in their types.
LEMMA ArguingTypes ==
  ASSUME Types, Arguing
  PROVE  Types'
<1>1. /\ in' = in /\ option' = option /\ setting' = setting /\ single' = single
      /\ line' = line /\ read' = read /\ eitr' = eitr /\ phase = "arguments"
      /\ phase' \in {"arguments", "validate", "crashed", "exited"}
  BY DEF Arguing, TakeCoverageFile, TakeExecutable, CannotName, ArgumentsDone, MoreArguments
<1>2. /\ executables \in Seq(Value) /\ coverageFiles \in Seq(Value) /\ single \in Value
      /\ next \in Nat \ {0} /\ eitr = 1 /\ read = << >> /\ in \in Inputs
  BY <1>1 DEF Types
<1>3. next <= Len(in.args) => Argument \in Value
  BY <1>2, InputFacts DEF Argument
<1>4. executables' \in Seq(Value) /\ coverageFiles' \in Seq(Value) /\ next' \in Nat \ {0}
  <2>1. CASE TakeCoverageFile
    <3>1. /\ next <= Len(in.args) /\ next' = next + 1 /\ executables' = executables
          /\ coverageFiles' = IF Readable(Argument) THEN Append(coverageFiles, Argument)
                                                    ELSE coverageFiles
      BY <2>1 DEF TakeCoverageFile, MoreArguments
    <3>2. Append(coverageFiles, Argument) \in Seq(Value)
      BY <1>2, <1>3, <3>1, AppendProperties
    <3>3. QED
      BY <1>2, <3>1, <3>2
  <2>2. CASE TakeExecutable
    <3>1. next <= Len(in.args) /\ next' = next + 1
      BY <2>2 DEF TakeExecutable, MoreArguments
    <3>2. CASE Readable(Argument) /\ Readable(CoverageName(Argument))
      <4>1. /\ executables' = Append(executables, Argument)
            /\ coverageFiles' = Append(coverageFiles, CoverageName(Argument))
            /\ ~Unnamable(Argument)
        BY <2>2, <3>2 DEF TakeExecutable
      <4>2. CoverageName(Argument) \in Value
        BY <1>3, <3>1, <4>1, NameType
      <4>3. /\ Append(executables, Argument) \in Seq(Value)
            /\ Append(coverageFiles, CoverageName(Argument)) \in Seq(Value)
        BY <1>2, <1>3, <3>1, <4>2, AppendProperties
      <4>4. QED
        BY <1>2, <3>1, <4>1, <4>3
    <3>3. CASE ~(Readable(Argument) /\ Readable(CoverageName(Argument)))
      BY <1>2, <2>2, <3>1, <3>3 DEF TakeExecutable, lists
    <3>4. QED
      BY <3>2, <3>3
  <2>3. CASE CannotName
    BY <1>2, <2>3 DEF CannotName, lists
  <2>4. CASE ArgumentsDone
    <3>1. << single >> \in Seq(Value)
      BY <1>2
    <3>2. QED
      BY <1>2, <2>4, <3>1 DEF ArgumentsDone
  <2>5. QED
    BY <2>1, <2>2, <2>3, <2>4 DEF Arguing
<1>5. read' \in Seq(ToSet(executables) \X ToSet(coverageFiles))'
  BY <1>1, <1>2, EmptySeq
<1>6. QED
  BY <1>1, <1>2, <1>4, <1>5 DEF Types, Phases

(***************************************************************************)
(* Later steps leave settings and lists alone.                             *)
(***************************************************************************)
Preparing == Refuse \/ NoConstructor \/ Accept \/ LoadSymbol \/ SymbolsDone

\* They keep the variables in their types.
LEMMA PreparingTypes ==
  ASSUME Types, Preparing
  PROVE  Types'
<1>1. /\ in' = in /\ option' = option /\ setting' = setting /\ single' = single
      /\ line' = line /\ read' = read /\ eitr' = eitr
      /\ executables' = executables /\ coverageFiles' = coverageFiles
      /\ phase \in {"validate", "symbols"}
      /\ phase' \in {"symbols", "reading", "crashed", "exited"}
      /\ next' \in {next, 1, next + 2}
  BY DEF Preparing, Refuse, NoConstructor, Accept, LoadSymbol, SymbolsDone, lists
<1>2. next' \in Nat \ {0}
  BY <1>1 DEF Types
<1>3. read' \in Seq(ToSet(executables) \X ToSet(coverageFiles))'
  BY <1>1 DEF Types
<1>4. QED
  BY <1>1, <1>2, <1>3 DEF Types, Phases

\* Reading a coverage file adds a pair of listed files, provided the iterator
\* points to an executable.
LEMMA ReadingTypes ==
  ASSUME Types, ReadCoverage \/ Finish,
         phase = "reading" /\ next <= Len(coverageFiles) => eitr \in DOMAIN executables
  PROVE  Types'
<1>1. /\ in' = in /\ option' = option /\ setting' = setting /\ single' = single
      /\ line' = line /\ executables' = executables /\ coverageFiles' = coverageFiles
      /\ phase = "reading" /\ phase' \in {"reading", "done"}
      /\ next' \in {next, next + 1}
  BY DEF ReadCoverage, Finish, lists
<1>2. /\ next \in Nat \ {0} /\ coverageFiles \in Seq(Value)
      /\ read \in Seq(ToSet(executables) \X ToSet(coverageFiles))
  BY DEF Types
<1>3. read' \in Seq(ToSet(executables) \X ToSet(coverageFiles))
  <2>1. CASE ReadCoverage
    <3> DEFINE pair == << executables[eitr], coverageFiles[next] >>
    <3> DEFINE S == ToSet(executables) \X ToSet(coverageFiles)
    <3>1. read' = Append(read, pair) /\ next <= Len(coverageFiles)
      BY <2>1 DEF ReadCoverage
    <3>2. next \in DOMAIN coverageFiles /\ eitr \in DOMAIN executables
      <4>1. DOMAIN coverageFiles = 1 .. Len(coverageFiles) /\ Len(coverageFiles) \in Nat
        BY <1>2, LenProperties
      <4>2. QED
        BY <1>1, <1>2, <3>1, <4>1
    <3>3. pair \in S
      BY <3>2 DEF ToSet
    <3>4. read \in Seq(S)
      BY <1>2
    <3> HIDE DEF pair, S
    <3>5. Append(read, pair) \in Seq(S)
      BY <3>3, <3>4, AppendProperties
    <3>6. QED
      BY <3>1, <3>5 DEF S
  <2>2. CASE Finish
    BY <1>2, <2>2 DEF Finish
  <2>3. QED
    BY <2>1, <2>2
<1>4. QED
  BY <1>1, <1>2, <1>3 DEF Types, Phases

(***************************************************************************)
(* The lists against the arguments up to n: as many coverage files as      *)
(* arguments are usable, each at the rank of its argument, and without -1  *)
(* the executable at the same place.                                       *)
(***************************************************************************)
Rank(k) == Cardinality(UsableTo(k))

Listed(n) ==
  /\ Len(coverageFiles) = Rank(n)
  /\ \A k \in UsableTo(n) :
       /\ coverageFiles[Rank(k)] = IF single = NULL THEN Own(in.args[k]) ELSE in.args[k]
       /\ single = NULL => executables[Rank(k)] = in.args[k]

\* With -1 the list of executables stays empty until the arguments are done.
Collecting ==
  phase = "arguments" =>
    /\ next <= Len(in.args) + 1 /\ Listed(next - 1)
    /\ single # NULL => executables = << >>
    /\ single # NULL /\ coverageFiles # << >> => Readable(single)

Collected ==
  phase \in {"validate", "symbols", "reading", "done"} =>
    /\ Listed(Len(in.args))
    /\ single # NULL => executables = << single >>

\* The two iterators of the reading loop move together, or the first stands still.
Iterated ==
  phase \in {"reading", "done"} =>
    /\ next <= Len(coverageFiles) + 1 /\ Len(read) = next - 1
    /\ eitr = IF single = NULL THEN next ELSE 1
    /\ \A k \in 1 .. Len(read) :
         read[k] = << IF single = NULL THEN executables[k] ELSE single, coverageFiles[k] >>
    /\ phase = "done" => next = Len(coverageFiles) + 1

Paired == single = NULL => Len(executables) = Len(coverageFiles)

ListInv == Paired /\ Collecting /\ Collected /\ Iterated

(***************************************************************************)
(* One more argument raises the rank if it is usable, and the ranks of the *)
(* arguments up to n are the numbers up to the rank of n.                  *)
(***************************************************************************)
LEMMA RankFacts ==
  ASSUME NEW n \in Nat
  PROVE  /\ Rank(0) = 0 /\ UsableTo(0) = {} /\ Rank(n) \in Nat
         /\ \A k \in UsableTo(n) : Rank(k) \in 1 .. Rank(n)
         /\ UsableTo(n + 1) = IF Usable(in.args[n + 1]) THEN UsableTo(n) \cup {n + 1}
                                                        ELSE UsableTo(n)
         /\ Rank(n + 1) = IF Usable(in.args[n + 1]) THEN Rank(n) + 1 ELSE Rank(n)
<1>1. \A m \in Nat : IsFiniteSet(UsableTo(m))
  <2>1. ASSUME NEW m \in Nat PROVE IsFiniteSet(UsableTo(m))
    <3>1. IsFiniteSet(1 .. m)
      BY FS_Interval
    <3>2. UsableTo(m) \subseteq 1 .. m
      BY DEF UsableTo
    <3>3. QED
      BY <3>1, <3>2, FS_Subset
  <2>2. QED
    BY <2>1
<1>2. \A m \in Nat : Rank(m) \in Nat
  BY <1>1, FS_CardinalityType DEF Rank
<1>3. UsableTo(0) = {} /\ Rank(0) = 0
  <2>1. UsableTo(0) = {}
    BY DEF UsableTo
  <2>2. QED
    BY <2>1, FS_EmptySet DEF Rank
<1>4. ASSUME NEW k \in UsableTo(n) PROVE Rank(k) \in 1 .. Rank(n)
  <2>1. k \in 1 .. n /\ k \in UsableTo(k) /\ UsableTo(k) \subseteq UsableTo(n) /\ k \in Nat
    BY DEF UsableTo
  <2>2. Rank(k) <= Rank(n)
    BY <1>1, <2>1, FS_Subset DEF Rank
  <2>3. UsableTo(k) # {} /\ IsFiniteSet(UsableTo(k))
    BY <1>1, <2>1
  <2>4. Rank(k) # 0
    BY <2>3, FS_EmptySet DEF Rank
  <2>5. QED
    BY <1>2, <2>1, <2>2, <2>4
<1>5. UsableTo(n + 1) = IF Usable(in.args[n + 1]) THEN UsableTo(n) \cup {n + 1}
                                                  ELSE UsableTo(n)
  <2>1. \A j : j \in 1 .. n + 1 <=> j \in 1 .. n \/ j = n + 1
    OBVIOUS
  <2>2. QED
    BY <2>1 DEF UsableTo
<1>6. Rank(n + 1) = IF Usable(in.args[n + 1]) THEN Rank(n) + 1 ELSE Rank(n)
  <2>1. n + 1 \notin UsableTo(n)
    BY DEF UsableTo
  <2>2. IsFiniteSet(UsableTo(n))
    BY <1>1
  <2>3. Cardinality(UsableTo(n) \cup {n + 1}) = Cardinality(UsableTo(n)) + 1
    BY <2>1, <2>2, FS_AddElement
  <2>4. QED
    BY <1>5, <2>3 DEF Rank
<1>7. QED
  BY <1>2, <1>3, <1>4, <1>5, <1>6

(***************************************************************************)
(* While the two lists, the settings and the input stand still, so does    *)
(* what the lists hold.                                                    *)
(***************************************************************************)
LEMMA ListedKept ==
  ASSUME UNCHANGED << in, setting, single, executables, coverageFiles >>
  PROVE  /\ \A n : Listed(n)' <=> Listed(n)
         /\ Paired' <=> Paired
BY DEF Listed, Rank, UsableTo, Usable, Own, Paired

(***************************************************************************)
(* Before the arguments both lists are empty, and they are complete for    *)
(* none of them.                                                           *)
(***************************************************************************)
LEMMA ListedNone ==
  ASSUME executables = << >>, coverageFiles = << >>
  PROVE  Listed(0) /\ Paired
<1>1. UsableTo(0) = {} /\ Rank(0) = 0
  BY RankFacts
<1>2. QED
  BY <1>1 DEF Listed, Paired

\* The same after a step that leaves them empty.
LEMMA ListedNoneNext ==
  ASSUME executables' = << >>, coverageFiles' = << >>
  PROVE  Listed(0)' /\ Paired'
<1>1. UsableTo(0)' = {}
  BY DEF UsableTo
<1>2. Rank(0)' = 0
  BY <1>1, FS_EmptySet DEF Rank
<1>3. QED
  BY <1>1, <1>2 DEF Listed, Paired

\* The lists start empty.
LEMMA InitLists == Init => ListInv
<1> SUFFICES ASSUME Init PROVE ListInv
  OBVIOUS
<1>1. phase = "options" /\ executables = << >> /\ coverageFiles = << >>
  BY DEF Init
<1>2. QED
  BY <1>1 DEF ListInv, Paired, Collecting, Collected, Iterated

\* The steps over options and configuration files leave the lists empty.
LEMMA OptioningLists ==
  ASSUME Types, ListInv, Optioning
  PROVE  ListInv'
<1>1. /\ executables' = << >> /\ coverageFiles' = << >> /\ in' = in
      /\ \/ phase' \in {"options", "config", "exited"}
         \/ phase' = "arguments" /\ next' = 1
  BY DEF Optioning, SetOption, SetSingle, SetVerbose, BadOption, OpenConfig, ConfigLine,
         EndConfig, CheckConfiguration, MoreOptions, lists, Types
<1>2. Listed(0)' /\ Paired'
  BY <1>1, ListedNoneNext
<1>3. Len(in.args) \in Nat
  BY InputFacts DEF Types
<1>4. Collecting'
  <2>1. phase' = "arguments" => (next - 1)' = 0
    BY <1>1
  <2>2. phase' = "arguments" => (Listed(next - 1))'
    BY <1>2, <2>1 DEF Listed, Rank
  <2>3. QED
    BY <1>1, <1>3, <2>2 DEF Collecting
<1>5. QED
  BY <1>1, <1>2, <1>4 DEF ListInv, Collected, Iterated

\* Validation and the symbols leave the lists alone, and the first coverage
\* file is in turn when reading begins.
LEMMA PreparingLists ==
  ASSUME Types, ListInv, Preparing
  PROVE  ListInv'
<1>1. /\ in' = in /\ setting' = setting /\ single' = single
      /\ executables' = executables /\ coverageFiles' = coverageFiles
      /\ read' = read /\ eitr' = eitr /\ phase \in {"validate", "symbols"}
      /\ \/ phase' \in {"symbols", "crashed", "exited"}
         \/ phase' = "reading" /\ next' = 1
  BY DEF Preparing, Refuse, NoConstructor, Accept, LoadSymbol, SymbolsDone, lists
<1>2. Paired' /\ Collected' /\ Collecting'
  BY <1>1, ListedKept DEF ListInv, Collected, Collecting
<1>3. read = << >> /\ eitr = 1 /\ Len(coverageFiles) \in Nat
  BY <1>1, LenProperties DEF Types
<1>4. Iterated'
  BY <1>1, <1>3 DEF Iterated
<1>5. QED
  BY <1>2, <1>4 DEF ListInv

(***************************************************************************)
(* An argument that is not usable leaves the lists as they are; a usable   *)
(* one adds its coverage file, and without -1 itself, at its rank.         *)
(***************************************************************************)
LEMMA ListedSkip ==
  ASSUME NEW n \in Nat, Listed(n), ~Usable(in.args[n + 1])
  PROVE  Listed(n + 1)
BY RankFacts DEF Listed

\* Adding the coverage file of a usable argument, and without -1 the argument,
\* keeps the lists complete.
LEMMA ListedTake ==
  ASSUME NEW n \in Nat, Listed(n), Usable(in.args[n + 1]), Paired,
         coverageFiles \in Seq(Value), executables \in Seq(Value),
         UNCHANGED << in, setting, single >>,
         NEW name \in Value, name = IF single = NULL THEN Own(in.args[n + 1]) ELSE in.args[n + 1],
         coverageFiles' = Append(coverageFiles, name),
         NEW exe \in Value, single = NULL => exe = in.args[n + 1],
         executables' = IF single = NULL THEN Append(executables, exe) ELSE executables
  PROVE  Listed(n + 1)' /\ Paired'
<1>1. /\ Rank(n) \in Nat /\ \A k \in UsableTo(n) : Rank(k) \in 1 .. Rank(n)
      /\ UsableTo(n + 1) = UsableTo(n) \cup {n + 1} /\ Rank(n + 1) = Rank(n) + 1
  BY RankFacts
<1>2. Len(coverageFiles) = Rank(n) /\ (single = NULL => Len(executables) = Rank(n))
  BY DEF Listed, Paired
<1>3. \A k : Rank(k)' = Rank(k) /\ UsableTo(k)' = UsableTo(k)
  BY DEF Rank, UsableTo, Usable, Own
<1>4. /\ Len(coverageFiles') = Rank(n) + 1 /\ coverageFiles'[Rank(n) + 1] = name
      /\ \A i \in 1 .. Rank(n) : coverageFiles'[i] = coverageFiles[i]
  BY <1>2, AppendProperties, LenProperties
<1>5. ASSUME single = NULL
      PROVE  /\ Len(executables') = Rank(n) + 1 /\ executables'[Rank(n) + 1] = exe
             /\ \A i \in 1 .. Rank(n) : executables'[i] = executables[i]
  BY <1>2, <1>5, AppendProperties, LenProperties
<1>6. \A a : Own(a)' = Own(a)
  BY DEF Own
<1>7. ASSUME NEW k \in UsableTo(n + 1)
      PROVE  /\ coverageFiles'[Rank(k)] = IF single = NULL THEN Own(in.args[k]) ELSE in.args[k]
             /\ single = NULL => executables'[Rank(k)] = in.args[k]
  <2>1. CASE k = n + 1
    BY <1>1, <1>4, <1>5, <2>1
  <2>2. CASE k # n + 1
    <3>1. k \in UsableTo(n) /\ Rank(k) \in 1 .. Rank(n)
      BY <1>1, <1>7, <2>2
    <3>2. /\ coverageFiles[Rank(k)] = IF single = NULL THEN Own(in.args[k]) ELSE in.args[k]
          /\ single = NULL => executables[Rank(k)] = in.args[k]
      BY <3>1 DEF Listed
    <3>3. QED
      BY <1>4, <1>5, <3>1, <3>2
  <2>3. QED
    BY <2>1, <2>2
<1>8. Paired'
  BY <1>4, <1>5 DEF Paired
<1>9. QED
  BY <1>1, <1>3, <1>4, <1>6, <1>7, <1>8 DEF Listed

(***************************************************************************)
(* Taking an argument takes it into the lists exactly if it is usable.     *)
(***************************************************************************)
LEMMA TakingLists ==
  ASSUME Types, ListInv, TakeCoverageFile \/ TakeExecutable
  PROVE  ListInv'
<1>1. /\ in' = in /\ setting' = setting /\ single' = single
      /\ phase = "arguments" /\ phase' = "arguments"
      /\ next <= Len(in.args) /\ next' = next + 1
  BY DEF TakeCoverageFile, TakeExecutable, MoreArguments
<1>2. /\ next \in Nat \ {0} /\ executables \in Seq(Value) /\ coverageFiles \in Seq(Value)
      /\ single \in Value /\ Len(in.args) \in Nat /\ Argument \in Value
  BY <1>1, InputFacts DEF Types, Argument
<1>0. PICK n \in Nat : n = next - 1
  BY <1>2
<1>3. Argument = in.args[n + 1] /\ n + 1 = next
  BY <1>0, <1>2 DEF Argument
<1>4. /\ Paired /\ Listed(n) /\ (single # NULL => executables = << >>)
      /\ single # NULL /\ coverageFiles # << >> => Readable(single)
  BY <1>0, <1>1 DEF ListInv, Collecting
<1>5. /\ Listed(n + 1)' /\ Paired' /\ (single # NULL => executables' = << >>)
      /\ single # NULL /\ coverageFiles' # << >> => Readable(single)
  <2>1. CASE TakeCoverageFile
    <3>1. /\ single # NULL /\ Readable(single) /\ executables' = executables
          /\ coverageFiles' = IF Readable(Argument) THEN Append(coverageFiles, Argument)
                                                    ELSE coverageFiles
      BY <2>1 DEF TakeCoverageFile
    <3>2. Usable(Argument) <=> Readable(Argument)
      BY <3>1 DEF Usable, Readable
    <3>3. Listed(n + 1)' /\ Paired'
      <4>1. CASE Readable(Argument)
        BY <1>1, <1>2, <1>3, <1>4, <3>1, <3>2, <4>1, ListedTake
      <4>2. CASE ~Readable(Argument)
        <5>1. Listed(n + 1)
          BY <1>3, <1>4, <3>2, <4>2, ListedSkip
        <5>2. UNCHANGED << in, setting, single, executables, coverageFiles >>
          BY <1>1, <3>1, <4>2
        <5>3. QED
          BY <1>4, <5>1, <5>2, ListedKept
      <4>3. QED
        BY <4>1, <4>2
    <3>4. QED
      BY <1>4, <3>1, <3>3
  <2>2. CASE TakeExecutable
    <3>1. /\ single = NULL /\ ~(Readable(Argument) /\ Unnamable(Argument))
          /\ IF Readable(Argument) /\ Readable(CoverageName(Argument))
               THEN /\ executables' = Append(executables, Argument)
                    /\ coverageFiles' = Append(coverageFiles, CoverageName(Argument))
               ELSE executables' = executables /\ coverageFiles' = coverageFiles
      BY <2>2 DEF TakeExecutable, lists
    <3>2. CoverageName(Argument) = Own(Argument)
      BY DEF CoverageName, Own, Cut
    <3>3. Usable(Argument) <=> Readable(Argument) /\ Readable(CoverageName(Argument))
      BY <3>1, <3>2 DEF Usable, Readable
    <3>4. CASE Usable(Argument)
      <4>1. ~Unnamable(Argument)
        BY <3>1, <3>3, <3>4
      <4>2. CoverageName(Argument) \in Value
        BY <1>2, <4>1, NameType
      <4>3. Listed(n + 1)' /\ Paired'
        BY <1>1, <1>2, <1>3, <1>4, <3>1, <3>2, <3>3, <3>4, <4>2, ListedTake
      <4>4. QED
        BY <3>1, <4>3
    <3>5. CASE ~Usable(Argument)
      <4>1. executables' = executables /\ coverageFiles' = coverageFiles
        BY <3>1, <3>3, <3>5
      <4>2. Listed(n + 1)
        BY <1>3, <1>4, <3>5, ListedSkip
      <4>3. Listed(n + 1)' /\ Paired'
        BY <1>1, <1>4, <4>1, <4>2, ListedKept
      <4>4. QED
        BY <3>1, <4>3
    <3>6. QED
      BY <3>4, <3>5
  <2>3. QED
    BY <2>1, <2>2
<1>6. Collecting'
  <2>1. next' - 1 = n + 1 /\ next' <= Len(in.args) + 1
    BY <1>0, <1>1, <1>2
  <2>2. (Listed(next - 1))'
    BY <1>5, <2>1
  <2>3. QED
    BY <1>1, <1>5, <2>1, <2>2 DEF Collecting, Readable
<1>7. QED
  BY <1>1, <1>5, <1>6 DEF ListInv, Collected, Iterated

(***************************************************************************)
(* When the arguments are done, every one of them is in the lists, or the  *)
(* lists are empty and main gives up.                                      *)
(***************************************************************************)
LEMMA ListingDone ==
  ASSUME Types, ListInv, CannotName \/ ArgumentsDone
  PROVE  ListInv'
<1>1. /\ in' = in /\ setting' = setting /\ single' = single /\ coverageFiles' = coverageFiles
      /\ phase = "arguments" /\ phase' \in {"crashed", "exited", "validate"}
  BY DEF CannotName, ArgumentsDone, lists, MoreArguments
<1>2. /\ Paired /\ next <= Len(in.args) + 1 /\ Listed(next - 1)
      /\ (single # NULL => executables = << >>)
      /\ single # NULL /\ coverageFiles # << >> => Readable(single)
      /\ next \in Nat \ {0} /\ Len(in.args) \in Nat
  BY <1>1, InputFacts DEF ListInv, Collecting, Types
<1>3. CASE CannotName
  <2>1. executables' = executables /\ phase' = "crashed"
    BY <1>3 DEF CannotName, lists
  <2>2. QED
    BY <1>1, <1>2, <2>1 DEF ListInv, Paired, Collecting, Collected, Iterated
<1>4. CASE ArgumentsDone
  <2>1. /\ next > Len(in.args) \/ (single # NULL /\ ~Readable(single))
        /\ executables' = IF single # NULL /\ coverageFiles # << >> THEN << single >>
                                                                    ELSE executables
        /\ phase' = IF executables' = << >> THEN "exited" ELSE "validate"
    BY <1>4 DEF ArgumentsDone
  <2>2. Paired'
    BY <1>1, <1>2, <2>1 DEF Paired
  <2>3. ASSUME phase' = "validate"
        PROVE  Listed(Len(in.args))' /\ (single # NULL => executables' = << single >>)
    <3>1. executables' # << >>
      BY <2>1, <2>3
    <3>2. single # NULL => executables' = << single >> /\ Readable(single)
      BY <1>2, <2>1, <3>1
    <3>3. next > Len(in.args)
      BY <2>1, <3>2
    <3>4. Listed(Len(in.args))
      <4>1. next - 1 = Len(in.args)
        BY <1>2, <3>3
      <4>2. QED
        BY <1>2, <4>1
    <3>5. single = NULL => executables' = executables
      BY <2>1
    <3>6. Listed(Len(in.args))'
      BY <1>1, <3>4, <3>5 DEF Listed, Rank, UsableTo, Usable, Own
    <3>7. QED
      BY <3>2, <3>6
  <2>4. Collected'
    BY <1>1, <2>3 DEF Collected
  <2>5. QED
    BY <1>1, <2>2, <2>4 DEF ListInv, Collecting, Iterated
<1>5. QED
  BY <1>3, <1>4

(***************************************************************************)
(* The iterator points to an executable while there is a coverage file.    *)
(***************************************************************************)
LEMMA IteratorFollows ==
  ASSUME Types, ListInv, phase = "reading", next <= Len(coverageFiles)
  PROVE  /\ eitr \in DOMAIN executables
         /\ executables[eitr] = IF single = NULL THEN executables[next] ELSE single
<1>1. /\ next \in Nat \ {0} /\ executables \in Seq(Value)
      /\ (single = NULL => Len(executables) = Len(coverageFiles))
      /\ eitr = (IF single = NULL THEN next ELSE 1)
      /\ (single # NULL => executables = << single >>)
  BY DEF Types, ListInv, Paired, Iterated, Collected
<1>2. DOMAIN executables = 1 .. Len(executables) /\ Len(executables) \in Nat
  BY <1>1, LenProperties
<1>3. QED
  BY <1>1, <1>2

\* The pair that is read is the one at the place in turn of the two lists.
LEMMA ReadingLists ==
  ASSUME Types, ListInv, ReadCoverage \/ Finish
  PROVE  ListInv'
<1>1. /\ in' = in /\ setting' = setting /\ single' = single
      /\ executables' = executables /\ coverageFiles' = coverageFiles
      /\ phase = "reading" /\ phase' \in {"reading", "done"}
  BY DEF ReadCoverage, Finish, lists
<1>2. Paired' /\ Collected' /\ Collecting'
  BY <1>1, ListedKept DEF ListInv, Collected, Collecting
<1>3. /\ next <= Len(coverageFiles) + 1 /\ Len(read) = next - 1
      /\ eitr = (IF single = NULL THEN next ELSE 1)
      /\ \A k \in 1 .. Len(read) :
           read[k] = << IF single = NULL THEN executables[k] ELSE single, coverageFiles[k] >>
      /\ next \in Nat \ {0} /\ read \in Seq(ToSet(executables) \X ToSet(coverageFiles))
  BY <1>1 DEF ListInv, Iterated, Types
<1>4. Len(coverageFiles) \in Nat
  BY LenProperties DEF Types
<1>5. CASE ReadCoverage
  <2> DEFINE pair == << IF single = NULL THEN executables[next] ELSE single, coverageFiles[next] >>
  <2> DEFINE S == ToSet(executables) \X ToSet(coverageFiles)
  <2>1. /\ next <= Len(coverageFiles) /\ next' = next + 1 /\ phase' = "reading"
        /\ eitr' = IF single = NULL THEN eitr + 1 ELSE eitr
        /\ read' = Append(read, << executables[eitr], coverageFiles[next] >>)
    BY <1>5 DEF ReadCoverage
  <2>2. /\ eitr \in DOMAIN executables
        /\ executables[eitr] = IF single = NULL THEN executables[next] ELSE single
    BY <1>1, <2>1, IteratorFollows
  <2>3. read' = Append(read, pair)
    BY <2>1, <2>2
  <2>4. pair \in S
    <3>1. next \in DOMAIN coverageFiles
      BY <1>3, <2>1, LenProperties DEF Types
    <3>2. pair = << executables[eitr], coverageFiles[next] >>
      BY <2>2
    <3>3. QED
      BY <2>2, <3>1, <3>2 DEF ToSet
  <2>5. read \in Seq(S)
    BY <1>3
  <2>6. /\ Len(read') = Len(read) + 1 /\ read'[Len(read) + 1] = pair
        /\ \A i \in 1 .. Len(read) : read'[i] = read[i]
    <3> HIDE DEF pair, S
    <3>1. QED
      BY <2>3, <2>4, <2>5, AppendProperties, LenProperties
  <2>7. \A k \in 1 .. Len(read') :
          read'[k] = << IF single = NULL THEN executables[k] ELSE single, coverageFiles[k] >>
    <3>1. ASSUME NEW k \in 1 .. Len(read')
          PROVE  read'[k] = << IF single = NULL THEN executables[k] ELSE single, coverageFiles[k] >>
      <4>1. k \in 1 .. Len(read) \/ k = next
        BY <1>3, <2>6, <3>1
      <4>2. CASE k = next
        BY <1>3, <2>6, <4>2
      <4>3. CASE k \in 1 .. Len(read)
        BY <1>3, <2>6, <4>3
      <4>4. QED
        BY <4>1, <4>2, <4>3
    <3>2. QED
      BY <3>1
  <2>8. Iterated'
    BY <1>1, <1>3, <1>4, <2>1, <2>6, <2>7 DEF Iterated
  <2>9. QED
    BY <1>2, <2>8 DEF ListInv
<1>6. CASE Finish
  <2>1. next > Len(coverageFiles) /\ next' = next /\ read' = read /\ eitr' = eitr /\ phase' = "done"
    BY <1>6 DEF Finish
  <2>2. Iterated'
    BY <1>1, <1>3, <1>4, <2>1 DEF Iterated
  <2>3. QED
    BY <1>2, <2>2 DEF ListInv
<1>7. QED
  BY <1>5, <1>6

(***************************************************************************)
(* Both invariants together.                                               *)
(***************************************************************************)
LEMMA NextLists ==
  ASSUME Types, ListInv, [Next]_vars
  PROVE  Types' /\ ListInv'
<1>1. CASE Optioning
  BY <1>1, OptioningTypes, OptioningLists
<1>2. CASE Arguing
  BY <1>2, ArguingTypes, TakingLists, ListingDone DEF Arguing
<1>3. CASE Preparing
  BY <1>3, PreparingTypes, PreparingLists
<1>4. CASE ReadCoverage \/ Finish
  <2>1. phase = "reading" /\ next <= Len(coverageFiles) => eitr \in DOMAIN executables
    BY IteratorFollows
  <2>2. QED
    BY <1>4, <2>1, ReadingTypes, ReadingLists
<1>5. CASE UNCHANGED vars
  <2>1. UNCHANGED << in, phase, next, line, option, setting, single, executables, coverageFiles,
                     eitr, read >>
    BY <1>5 DEF vars, lists
  <2>2. Types'
    BY <2>1 DEF Types, Option
  <2>3. Paired' /\ Collected' /\ Collecting'
    BY <2>1, ListedKept DEF ListInv, Collected, Collecting, Readable
  <2>4. Iterated'
    BY <2>1 DEF ListInv, Iterated
  <2>5. QED
    BY <2>2, <2>3, <2>4 DEF ListInv
<1>6. QED
  BY <1>1, <1>2, <1>3, <1>4, <1>5 DEF Next, Optioning, Arguing, Preparing

(***************************************************************************)
(* Types: the iterator over the executables is never followed past the     *)
(* last of them, and without -1 there is a coverage file for each          *)
(* (covoar.cc 195-277 against 404-429).                                    *)
(***************************************************************************)
THEOREM TypeCorrect == Spec => []TypeOK
<1>1. Init => Types /\ ListInv
  BY InitTypes, InitLists
<1>2. Types /\ ListInv /\ [Next]_vars => (Types /\ ListInv)'
  BY NextLists
<1>3. Types /\ ListInv => TypeOK
  <2>1. SUFFICES ASSUME Types, ListInv PROVE TypeOK
    OBVIOUS
  <2>2. phase = "reading" /\ next <= Len(coverageFiles) => eitr \in DOMAIN executables
    BY <2>1, IteratorFollows
  <2>3. DOMAIN option = OptionNames /\ DOMAIN setting = SettingNames
    BY <2>1 DEF Types
  <2>4. QED
    BY <2>1, <2>2, <2>3 DEF Types, ListInv, Paired, TypeOK, Phases
<1>4. QED
  BY <1>1, <1>2, <1>3, PTL DEF Spec

(***************************************************************************)
(* Every usable argument's coverage file is read into its executable, once *)
(* and in order, whatever the command line and the files that exist.       *)
(***************************************************************************)
THEOREM PairsCorrect == Spec => []PairsExact
<1>1. Init => Types /\ ListInv
  BY InitTypes, InitLists
<1>2. Types /\ ListInv /\ [Next]_vars => (Types /\ ListInv)'
  BY NextLists
<1>3. Types /\ ListInv => PairsExact
  <2> SUFFICES ASSUME Types, ListInv, phase = "done" PROVE
        /\ Len(read) = Rank(Len(in.args))
        /\ \A k \in UsableTo(Len(in.args)) : read[Rank(k)] = Pair(in.args[k])
    BY DEF PairsExact, Rank
  <2>1. /\ Listed(Len(in.args)) /\ Len(read) = next - 1 /\ next = Len(coverageFiles) + 1
        /\ \A k \in 1 .. Len(read) :
             read[k] = << IF single = NULL THEN executables[k] ELSE single, coverageFiles[k] >>
    BY DEF ListInv, Collected, Iterated
  <2>2. Len(in.args) \in Nat /\ Len(coverageFiles) \in Nat
    BY InputFacts, LenProperties DEF Types
  <2>3. Len(read) = Rank(Len(in.args)) /\ Len(coverageFiles) = Rank(Len(in.args))
    BY <2>1, <2>2 DEF Listed
  <2>4. ASSUME NEW k \in UsableTo(Len(in.args)) PROVE read[Rank(k)] = Pair(in.args[k])
    <3>1. Rank(k) \in 1 .. Len(read)
      BY <2>2, <2>3, RankFacts
    <3>2. /\ coverageFiles[Rank(k)] = IF single = NULL THEN Own(in.args[k]) ELSE in.args[k]
          /\ single = NULL => executables[Rank(k)] = in.args[k]
      BY <2>1 DEF Listed
    <3>3. read[Rank(k)] = << IF single = NULL THEN executables[Rank(k)] ELSE single,
                             coverageFiles[Rank(k)] >>
      BY <2>1, <3>1
    <3>4. QED
      BY <3>2, <3>3 DEF Pair
  <2>5. QED
    BY <2>3, <2>4
<1>4. QED
  BY <1>1, <1>2, <1>3, PTL DEF Spec

(***************************************************************************)
(* While the options are taken, each one of the configuration files' table *)
(* holds the value of the last line for it in the part read so far, and    *)
(* each setting the last value given for it on the command line so far.    *)
(***************************************************************************)
Opened       == {k \in DOMAIN in.options : Reads(k)}
Passed(k, j) == k < next \/ (phase = "config" /\ k = next /\ j < line)

Later(k, j, n) ==
  \A k2 \in Opened : \A j2 \in SetIn(k2, n) :
    Passed(k2, j2) => k2 < k \/ (k2 = k /\ j2 <= j)

OptionRight(n) ==
  \/ option[n] = NULL /\ \A k \in Opened : \A j \in SetIn(k, n) : ~Passed(k, j)
  \/ \E k \in Opened : \E j \in SetIn(k, n) :
       Passed(k, j) /\ option[n] = FileAt(k)[j].value /\ Later(k, j, n)

SettingRight(n) ==
  \/ setting[n] = Default(n) /\ \A k \in GivenBy(n) : k >= next
  \/ \E k \in GivenBy(n) :
       k < next /\ setting[n] = in.options[k].arg /\ \A k2 \in GivenBy(n) : k2 < next => k2 <= k

Taken ==
  phase \in {"options", "config"} =>
    /\ \A n \in OptionNames : OptionRight(n)
    /\ \A n \in SettingNames \ {"verbose"} : SettingRight(n)

\* The first half of AskedFor, from the arguments on.
Asked(n) == IF SetBy(n) # {} THEN LastSet(n)
            ELSE IF GivenBy(n) # {} THEN LastGiven(n) ELSE Default(n)
Settled  == phase \in {"arguments", "validate", "symbols", "reading", "done"} =>
              \A n \in SettingNames \ {"verbose"} : setting[n] = Asked(n)

\* The words at odd places, the first of each pair, before place n.
FirstWords(n) == {in.words[k] : k \in {j \in DOMAIN in.words : j % 2 = 1 /\ j < n}}
Loaded ==
  /\ phase \in {"options", "config", "arguments", "validate"} => symbols = {}
  /\ phase = "symbols" => next % 2 = 1 /\ symbols = FirstWords(next)
  /\ phase \in {"reading", "done"} => symbols = FirstWords(Len(in.words) + 1)

AskedInv == Taken /\ Settled /\ Loaded

(***************************************************************************)
(* The last of a set of numbers is the one that none exceeds.              *)
(***************************************************************************)
LEMMA LastFacts ==
  ASSUME NEW S, S \subseteq Int, NEW k \in S, \A j \in S : j <= k
  PROVE  LastOf(S) = k
<1>1. LastOf(S) \in S /\ \A j \in S : j <= LastOf(S)
  BY DEF LastOf
<1>2. LastOf(S) <= k /\ k <= LastOf(S)
  BY <1>1
<1>3. LastOf(S) \in Int /\ k \in Int
  BY <1>1
<1>4. QED
  BY <1>2, <1>3

(***************************************************************************)
(* Options, the lines of their files and the options given directly, by    *)
(* their places.                                                           *)
(***************************************************************************)
LEMMA AskedSets ==
  ASSUME in \in Inputs
  PROVE  /\ Opened \subseteq 1 .. Len(in.options)
         /\ \A k \in Opened, n \in OptionNames :
              /\ SetIn(k, n) \subseteq 1 .. Len(FileAt(k))
              /\ \A j \in 1 .. Len(FileAt(k)) :
                   j \in SetIn(k, n) <=> FileAt(k)[j].name = n /\ Sets(FileAt(k)[j])
         /\ \A n : /\ GivenBy(n) \subseteq 1 .. Len(in.options)
                   /\ \A k \in 1 .. Len(in.options) :
                        k \in GivenBy(n) <=> /\ in.options[k].letter \in DOMAIN Letter
                                             /\ Letter[in.options[k].letter] = n
<1>1. DOMAIN in.options = 1 .. Len(in.options)
  BY InputFacts
<1>2. \A k \in Opened : DOMAIN FileAt(k) = 1 .. Len(FileAt(k))
  BY InputFacts DEF Opened, Reads
<1>3. Opened \subseteq 1 .. Len(in.options)
  BY <1>1 DEF Opened
<1>4. \A k \in Opened, n \in OptionNames :
        /\ SetIn(k, n) \subseteq 1 .. Len(FileAt(k))
        /\ \A j \in 1 .. Len(FileAt(k)) :
             j \in SetIn(k, n) <=> FileAt(k)[j].name = n /\ Sets(FileAt(k)[j])
  BY <1>2 DEF SetIn, Sets
<1>5. \A n : /\ GivenBy(n) \subseteq 1 .. Len(in.options)
             /\ \A k \in 1 .. Len(in.options) :
                  k \in GivenBy(n) <=> /\ in.options[k].letter \in DOMAIN Letter
                                       /\ Letter[in.options[k].letter] = n
  BY <1>1 DEF GivenBy
<1>6. QED
  BY <1>3, <1>4, <1>5

(***************************************************************************)
(* What is asked for depends on the command line and the files alone.      *)
(***************************************************************************)
LEMMA AskedKept ==
  ASSUME in' = in
  PROVE  /\ Opened' = Opened
         /\ \A k, n : SetIn(k, n)' = SetIn(k, n) /\ FileAt(k)' = FileAt(k)
         /\ \A n : GivenBy(n)' = GivenBy(n) /\ Asked(n)' = Asked(n)
<1>1. \A k : (Reads(k))' <=> Reads(k)
  BY DEF Reads
<1>2. Opened' = Opened
  BY DEF Opened, Reads
<1>3. \A k : FileAt(k)' = FileAt(k)
  BY DEF FileAt
<1>4. \A k, n : SetIn(k, n)' = SetIn(k, n)
  BY DEF SetIn, FileAt
<1>5. \A n : GivenBy(n)' = GivenBy(n)
  BY DEF GivenBy
<1>6. \A n : SetBy(n)' = SetBy(n)
  BY <1>1, <1>4 DEF SetBy
<1>7. \A n : LastSet(n)' = LastSet(n)
  BY <1>3, <1>4, <1>6 DEF LastSet
<1>8. \A n : LastGiven(n)' = LastGiven(n)
  BY <1>5 DEF LastGiven
<1>9. \A n : Asked(n)' = Asked(n)
  BY <1>5, <1>6, <1>7, <1>8 DEF Asked, Default
<1>10. QED
  BY <1>2, <1>3, <1>4, <1>5, <1>9

(***************************************************************************)
(* When every option has been taken, the value of the table's entry, if    *)
(* there is one, or else the setting's is what was asked for.              *)
(***************************************************************************)
LEMMA SettledOption ==
  ASSUME in \in Inputs, phase = "options", next > Len(in.options), next \in Nat,
         NEW n \in OptionNames, OptionRight(n)
  PROVE  /\ option[n] # NULL <=> SetBy(n) # {}
         /\ option[n] # NULL => option[n] = LastSet(n)
<1>1. Len(in.options) \in Nat
  BY InputFacts
<1>2. \A k \in Opened : \A j : Passed(k, j)
  <2>1. \A k \in Opened : k < next
    BY <1>1, AskedSets
  <2>2. QED
    BY <2>1 DEF Passed
<1>3. SetBy(n) = {k \in Opened : SetIn(k, n) # {}}
  BY DEF SetBy, Opened
<1>4. CASE option[n] = NULL /\ \A k \in Opened : \A j \in SetIn(k, n) : ~Passed(k, j)
  BY <1>2, <1>3, <1>4
<1>5. CASE \E k \in Opened : \E j \in SetIn(k, n) :
             Passed(k, j) /\ option[n] = FileAt(k)[j].value /\ Later(k, j, n)
  <2>0. PICK k \in Opened : \E j \in SetIn(k, n) :
               option[n] = FileAt(k)[j].value /\ Later(k, j, n)
    BY <1>5
  <2>1. PICK j \in SetIn(k, n) : option[n] = FileAt(k)[j].value /\ Later(k, j, n)
    BY <2>0
  <2>2. /\ k \in 1 .. Len(in.options) /\ j \in 1 .. Len(FileAt(k))
        /\ Sets(FileAt(k)[j]) /\ SetIn(k, n) \subseteq Int /\ SetBy(n) \subseteq Int
    BY <1>3, AskedSets
  <2>3. option[n] # NULL
    BY <2>1, <2>2 DEF Sets
  <2>4. k \in SetBy(n) /\ \A k2 \in SetBy(n) : k2 <= k
    <3>1. k \in SetBy(n)
      BY <1>3
    <3>2. ASSUME NEW k2 \in SetBy(n) PROVE k2 <= k
      <4>1. k2 \in Opened /\ SetIn(k2, n) # {}
        BY <1>3
      <4>2. k2 < k \/ k2 = k
        BY <1>2, <2>1, <4>1 DEF Later
      <4>3. QED
        BY <2>2, <4>2
    <3>3. QED
      BY <3>1, <3>2
  <2>5. LastOf(SetBy(n)) = k
    BY <2>2, <2>4, LastFacts
  <2>6. \A j2 \in SetIn(k, n) : j2 <= j
    BY <1>2, <2>1, <2>2 DEF Later
  <2>7. LastOf(SetIn(k, n)) = j
    BY <2>2, <2>6, LastFacts
  <2>8. QED
    BY <2>1, <2>3, <2>4, <2>5, <2>7 DEF LastSet
<1>6. QED
  BY <1>4, <1>5 DEF OptionRight

\* When every option has been taken, a setting is the last one given, or the
\* default.
LEMMA SettledSetting ==
  ASSUME in \in Inputs, next > Len(in.options), next \in Nat, NEW n, SettingRight(n)
  PROVE  setting[n] = IF GivenBy(n) # {} THEN LastGiven(n) ELSE Default(n)
<1>1. Len(in.options) \in Nat
  BY InputFacts
<1>2. \A k \in GivenBy(n) : k \in Int /\ k < next /\ ~(k >= next)
  BY <1>1, AskedSets
<1>3. CASE setting[n] = Default(n) /\ \A k \in GivenBy(n) : k >= next
  BY <1>2, <1>3
<1>4. CASE \E k \in GivenBy(n) :
             k < next /\ setting[n] = in.options[k].arg /\ \A k2 \in GivenBy(n) : k2 < next => k2 <= k
  <2>1. PICK k \in GivenBy(n) : setting[n] = in.options[k].arg /\ \A k2 \in GivenBy(n) : k2 <= k
    BY <1>2, <1>4
  <2>2. LastOf(GivenBy(n)) = k
    BY <1>2, <2>1, LastFacts
  <2>3. QED
    BY <2>1, <2>2 DEF LastGiven
<1>5. QED
  BY <1>3, <1>4 DEF SettingRight

\* check_configuration lets the file's value win over the command line's.
LEMMA CheckingAsked ==
  ASSUME Types, AskedInv, CheckConfiguration
  PROVE  AskedInv'
<1>1. /\ in' = in /\ in \in Inputs /\ phase = "options" /\ next > Len(in.options) /\ next \in Nat
      /\ setting' = [n \in SettingNames |-> Effective(n)] /\ symbols' = symbols
      /\ phase' \in {"arguments", "exited"}
  BY DEF CheckConfiguration, Types
<1>2. /\ \A n \in OptionNames : OptionRight(n)
      /\ \A n \in SettingNames \ {"verbose"} : SettingRight(n)
  BY <1>1 DEF AskedInv, Taken
<1>3. ASSUME NEW n \in SettingNames \ {"verbose"} PROVE setting'[n] = Asked(n)
  <2>1. setting[n] = IF GivenBy(n) # {} THEN LastGiven(n) ELSE Default(n)
    BY <1>1, <1>2, SettledSetting
  <2>2. setting'[n] = Effective(n)
    BY <1>1
  <2>3. CASE n \in OptionNames
    <3>1. /\ option[n] # NULL <=> SetBy(n) # {}
          /\ option[n] # NULL => option[n] = LastSet(n)
      BY <1>1, <1>2, <2>3, SettledOption
    <3>2. QED
      BY <2>1, <2>2, <2>3, <3>1 DEF Effective, Asked
  <2>4. CASE n \notin OptionNames
    <3>1. SetBy(n) = {}
      BY <2>4 DEF SetBy
    <3>2. QED
      BY <2>1, <2>2, <2>4, <3>1 DEF Effective, Asked
  <2>5. QED
    BY <2>3, <2>4
<1>4. Settled'
  <2>1. \A n : Asked(n)' = Asked(n)
    BY <1>1, AskedKept
  <2>2. QED
    BY <1>3, <2>1 DEF Settled
<1>5. Taken' /\ Loaded'
  BY <1>1 DEF Taken, Loaded, AskedInv
<1>6. QED
  BY <1>4, <1>5 DEF AskedInv

(***************************************************************************)
(* A step that reads no line that sets the option, and takes no argument   *)
(* for the setting, leaves what is right right.                            *)
(***************************************************************************)
LEMMA OptionKept ==
  ASSUME in' = in, NEW n, option'[n] = option[n],
         \A k \in Opened : \A j \in SetIn(k, n) : Passed(k, j)' <=> Passed(k, j),
         OptionRight(n)
  PROVE  OptionRight(n)'
<1>1. /\ Opened' = Opened
      /\ \A k : SetIn(k, n)' = SetIn(k, n) /\ FileAt(k)' = FileAt(k)
  BY AskedKept
<1>2. \A k, j : Later(k, j, n) => Later(k, j, n)'
  BY <1>1 DEF Later
<1>3. QED
  BY <1>1, <1>2 DEF OptionRight

\* The same for a setting the command line gives.
LEMMA SettingKept ==
  ASSUME in' = in, in \in Inputs, NEW n, setting'[n] = setting[n], next \in Nat,
         next' = next \/ (next' = next + 1 /\ next \notin GivenBy(n)),
         SettingRight(n)
  PROVE  SettingRight(n)'
<1>1. GivenBy(n)' = GivenBy(n) /\ Default(n)' = Default(n)
  BY AskedKept DEF Default
<1>2. \A k \in GivenBy(n) : k \in Nat
  BY AskedSets
<1>3. \A k \in GivenBy(n) : k < next' <=> k < next
  BY <1>2
<1>4. \A k \in GivenBy(n) : k >= next => k >= next'
  BY <1>2
<1>5. CASE setting[n] = Default(n) /\ \A k \in GivenBy(n) : k >= next
  BY <1>1, <1>4, <1>5 DEF SettingRight
<1>6. CASE \E k \in GivenBy(n) :
             k < next /\ setting[n] = in.options[k].arg /\ \A k2 \in GivenBy(n) : k2 < next => k2 <= k
  <2>1. PICK k \in GivenBy(n) : /\ k < next /\ setting[n] = in.options[k].arg
                                /\ \A k2 \in GivenBy(n) : k2 < next => k2 <= k
    BY <1>6
  <2>2. /\ k < next' /\ setting'[n] = in'.options[k].arg
        /\ \A k2 \in GivenBy(n) : k2 < next' => k2 <= k
    BY <1>3, <2>1
  <2>3. QED
    BY <1>1, <2>2 DEF SettingRight
<1>7. QED
  BY <1>5, <1>6 DEF SettingRight

(***************************************************************************)
(* A line that sets an option is the last one read.                        *)
(***************************************************************************)
LEMMA LineAsked ==
  ASSUME Types, AskedInv, ConfigLine, NEW n \in OptionNames
  PROVE  OptionRight(n)'
<1>1. /\ in' = in /\ next' = next /\ phase = "config" /\ phase' = "config"
      /\ line <= Len(Config) /\ line' = line + 1
      /\ option' = IF Sets(Config[line])
                     THEN [option EXCEPT ![Config[line].name] = Config[line].value]
                     ELSE option
  BY DEF ConfigLine
<1>2. /\ in \in Inputs /\ next \in Nat \ {0} /\ line \in Nat \ {0} /\ next <= Len(in.options)
      /\ Option.letter = "C" /\ Option.file # 0 /\ option \in [OptionNames -> Value]
      /\ OptionRight(n)
  BY <1>1 DEF Types, AskedInv, Taken
<1>3. next \in Opened /\ Config = FileAt(next)
  <2>1. next \in DOMAIN in.options
    BY <1>2, InputFacts
  <2>2. QED
    BY <1>2, <2>1 DEF Opened, Reads, Option, Config, FileAt
<1>4. Len(FileAt(next)) \in Nat /\ line \in 1 .. Len(FileAt(next))
  <2>1. Len(FileAt(next)) \in Nat
    BY <1>2, <1>3, InputFacts DEF Opened, Reads
  <2>2. QED
    BY <1>1, <1>2, <1>3, <2>1
<1>5. /\ Opened \subseteq Nat /\ \A k \in Opened : SetIn(k, n) \subseteq Nat
      /\ line \in SetIn(next, n) <=> FileAt(next)[line].name = n /\ Sets(FileAt(next)[line])
  BY <1>2, <1>3, <1>4, AskedSets
<1>6. \A k \in Opened : \A j \in SetIn(k, n) :
        Passed(k, j)' <=> Passed(k, j) \/ (k = next /\ j = line)
  <2>1. ASSUME NEW k \in Opened, NEW j \in SetIn(k, n)
        PROVE  Passed(k, j)' <=> Passed(k, j) \/ (k = next /\ j = line)
    <3>1. k \in Nat /\ j \in Nat
      BY <1>5
    <3>2. QED
      BY <1>1, <1>2, <3>1 DEF Passed
  <2>2. QED
    BY <2>1
<1>7. /\ Opened' = Opened
      /\ \A k : SetIn(k, n)' = SetIn(k, n) /\ FileAt(k)' = FileAt(k)
  BY <1>1, AskedKept
<1>8. CASE line \in SetIn(next, n)
  <2>0. PICK m \in Nat, i \in Nat : m = next /\ i = line
    BY <1>2
  <2>1. option'[n] = FileAt(m)[i].value
    BY <1>1, <1>2, <1>3, <1>5, <1>8, <2>0
  <2>2. m \in Opened /\ i \in SetIn(m, n)
    BY <1>3, <1>8, <2>0
  <2>3. Passed(m, i)'
    BY <1>6, <2>0, <2>2
  <2>4. ASSUME NEW k \in Opened, NEW j \in SetIn(k, n), Passed(k, j)'
        PROVE  k < m \/ (k = m /\ j <= i)
    <3>1. Passed(k, j) \/ (k = m /\ j = i)
      BY <1>6, <2>0, <2>4
    <3>2. k \in Nat /\ j \in Nat
      BY <1>5
    <3>3. QED
      BY <1>2, <2>0, <3>1, <3>2 DEF Passed
  <2>5. Later(m, i, n)'
    BY <1>7, <2>4 DEF Later
  <2>6. m \in Opened' /\ i \in SetIn(m, n)' /\ option'[n] = (FileAt(m)[i].value)'
    BY <1>7, <2>1, <2>2
  <2>7. QED
    BY <2>3, <2>5, <2>6 DEF OptionRight
<1>9. CASE line \notin SetIn(next, n)
  <2>1. option'[n] = option[n]
    BY <1>1, <1>2, <1>3, <1>5, <1>9
  <2>2. \A k \in Opened : \A j \in SetIn(k, n) : Passed(k, j)' <=> Passed(k, j)
    BY <1>6, <1>9
  <2>3. QED
    BY <1>1, <1>2, <2>1, <2>2, OptionKept
<1>10. QED
  BY <1>8, <1>9

(***************************************************************************)
(* Going to the next option, or into or out of its file, reads no line.    *)
(***************************************************************************)
LEMMA StepPassed ==
  ASSUME Types, NEW n \in OptionNames, in' = in,
         \/ /\ phase = "options" /\ phase' = "options" /\ next' = next + 1
            /\ Option.letter # "C" \/ Option.file = 0
         \/ phase = "options" /\ phase' = "config" /\ line' = 1 /\ next' = next
         \/ EndConfig
  PROVE  \A k \in Opened : \A j \in SetIn(k, n) : Passed(k, j)' <=> Passed(k, j)
<1> SUFFICES ASSUME NEW k \in Opened, NEW j \in SetIn(k, n)
             PROVE  Passed(k, j)' <=> Passed(k, j)
  OBVIOUS
<1>1. /\ next \in Nat \ {0} /\ line \in Nat \ {0} /\ in \in Inputs
      /\ phase = "config" => next <= Len(in.options) /\ Option.file # 0
  BY DEF Types
<1>2. k \in Nat /\ j \in Nat \ {0} /\ j \in 1 .. Len(FileAt(k))
  BY <1>1, AskedSets
<1>3. CASE /\ phase = "options" /\ phase' = "options" /\ next' = next + 1
           /\ Option.letter # "C" \/ Option.file = 0
  <2>1. k # next
    BY <1>3 DEF Opened, Reads, Option
  <2>2. QED
    BY <1>1, <1>2, <1>3, <2>1 DEF Passed
<1>4. CASE phase = "options" /\ phase' = "config" /\ line' = 1 /\ next' = next
  BY <1>1, <1>2, <1>4 DEF Passed
<1>5. CASE EndConfig
  <2>1. phase = "config" /\ phase' = "options" /\ next' = next + 1 /\ line > Len(Config)
    BY <1>5 DEF EndConfig
  <2>2. k = next => j < line
    <3>1. Len(FileAt(next)) \in Nat
      <4>1. next \in DOMAIN in.options
        BY <1>1, <2>1, InputFacts
      <4>2. QED
        BY <1>1, <2>1, <4>1, InputFacts DEF Option
    <3>2. QED
      BY <1>1, <1>2, <2>1, <3>1 DEF Config, FileAt, Option
  <2>3. QED
    BY <1>1, <1>2, <2>1, <2>2 DEF Passed
<1>6. QED
  BY <1>3, <1>4, <1>5

(***************************************************************************)
(* The options and the lines of their files.                               *)
(***************************************************************************)
LEMMA OptioningAsked ==
  ASSUME Types, AskedInv, Optioning
  PROVE  AskedInv'
<1>1. /\ in' = in /\ symbols' = symbols /\ in \in Inputs /\ next \in Nat \ {0}
      /\ phase \in {"options", "config"} /\ symbols = {}
      /\ phase' \in {"options", "config", "arguments", "exited"}
  BY DEF Optioning, SetOption, SetSingle, SetVerbose, BadOption, OpenConfig, ConfigLine,
         EndConfig, CheckConfiguration, MoreOptions, Types, AskedInv, Loaded
<1>2. /\ \A n \in OptionNames : OptionRight(n)
      /\ \A n \in SettingNames \ {"verbose"} : SettingRight(n)
  BY <1>1 DEF AskedInv, Taken
<1>3. Loaded'
  BY <1>1 DEF Loaded
<1>4. CASE CheckConfiguration
  BY <1>4, CheckingAsked
<1>5. CASE BadOption
  BY <1>3, <1>5 DEF BadOption, AskedInv, Taken, Settled
<1>6. CASE SetOption \/ SetSingle \/ SetVerbose \/ OpenConfig \/ ConfigLine \/ EndConfig
  <2>1. Settled'
    BY <1>6 DEF SetOption, SetSingle, SetVerbose, OpenConfig, ConfigLine, EndConfig, MoreOptions,
                Settled
  <2>2. ASSUME NEW n \in OptionNames PROVE OptionRight(n)'
    <3>1. CASE ConfigLine
      BY <3>1, LineAsked
    <3>2. CASE ~ConfigLine
      <4>1. option' = option
        BY <1>6, <3>2 DEF SetOption, SetSingle, SetVerbose, OpenConfig, EndConfig
      <4>2. \/ /\ phase = "options" /\ phase' = "options" /\ next' = next + 1
               /\ Option.letter # "C" \/ Option.file = 0
            \/ phase = "options" /\ phase' = "config" /\ line' = 1 /\ next' = next
            \/ EndConfig
        BY <1>6, <3>2 DEF SetOption, SetSingle, SetVerbose, OpenConfig, MoreOptions, Letter
      <4>3. \A k \in Opened : \A j \in SetIn(k, n) : Passed(k, j)' <=> Passed(k, j)
        BY <1>1, <4>2, StepPassed
      <4>4. QED
        BY <1>1, <1>2, <4>1, <4>3, OptionKept
    <3>3. QED
      BY <3>1, <3>2
  <2>3. ASSUME NEW n \in SettingNames \ {"verbose"} PROVE SettingRight(n)'
    <3>1. CASE SetOption /\ Letter[Option.letter] = n
      <4>1. /\ next <= Len(in.options) /\ next' = next + 1 /\ Option.letter \in DOMAIN Letter
            /\ setting' = [setting EXCEPT ![n] = Option.arg] /\ setting \in [SettingNames -> Value]
        BY <3>1 DEF SetOption, MoreOptions, Types
      <4>2. setting'[n] = in.options[next].arg
        BY <4>1 DEF Option
      <4>3. next \in 1 .. Len(in.options)
        BY <1>1, <4>1, InputFacts
      <4>4. next \in GivenBy(n)
        BY <1>1, <3>1, <4>1, <4>3, AskedSets DEF Option
      <4>5. GivenBy(n)' = GivenBy(n) /\ GivenBy(n) \subseteq Nat
        BY <1>1, AskedKept, AskedSets
      <4>6. /\ next < next' /\ setting'[n] = in'.options[next].arg
            /\ \A k2 \in GivenBy(n) : k2 < next' => k2 <= next
        BY <1>1, <4>1, <4>2, <4>5
      <4>7. QED
        BY <4>4, <4>5, <4>6 DEF SettingRight
    <3>2. CASE ~(SetOption /\ Letter[Option.letter] = n)
      <4>1. setting'[n] = setting[n]
        <5>1. setting \in [SettingNames -> Value]
          BY DEF Types
        <5>2. QED
          BY <1>6, <3>2, <5>1 DEF SetOption, SetSingle, SetVerbose, OpenConfig, ConfigLine, EndConfig
      <4>2. next' = next \/ (next' = next + 1 /\ next \notin GivenBy(n))
        <5>1. \/ next' = next
              \/ /\ next' = next + 1
                 /\ SetOption \/ Option.letter \in {"1", "v", "C"}
          BY <1>6 DEF SetOption, SetSingle, SetVerbose, OpenConfig, ConfigLine, EndConfig, Types
        <5>2. next \in GivenBy(n) => Option.letter \in DOMAIN Letter /\ Letter[Option.letter] = n
          BY <1>1, AskedSets DEF Option
        <5>3. {"1", "v", "C"} \cap DOMAIN Letter = {}
          BY DEF Letter
        <5>4. QED
          BY <3>2, <5>1, <5>2, <5>3
      <4>3. QED
        BY <1>1, <1>2, <4>1, <4>2, SettingKept
    <3>3. QED
      BY <3>1, <3>2
  <2>4. QED
    BY <1>3, <2>1, <2>2, <2>3 DEF AskedInv, Taken
<1>7. QED
  BY <1>4, <1>5, <1>6 DEF Optioning

(***************************************************************************)
(* The words of the symbols file, two at a time.                           *)
(***************************************************************************)
LEMMA WordFacts ==
  ASSUME in \in Inputs
  PROVE  /\ FirstWords(1) = {}
         /\ \A n \in Nat : n % 2 = 1 /\ n <= Len(in.words) =>
              FirstWords(n + 2) = FirstWords(n) \cup {in.words[n]} /\ (n + 2) % 2 = 1
         /\ \A n \in Nat : n > Len(in.words) => FirstWords(n) = FirstWords(Len(in.words) + 1)
<1>1. Len(in.words) \in Nat /\ DOMAIN in.words = 1 .. Len(in.words)
  BY InputFacts
<1>2. FirstWords(1) = {}
  BY <1>1 DEF FirstWords
<1>3. ASSUME NEW n \in Nat, n % 2 = 1, n <= Len(in.words)
      PROVE  FirstWords(n + 2) = FirstWords(n) \cup {in.words[n]} /\ (n + 2) % 2 = 1
  <2>1. (n + 2) % 2 = 1 /\ (n + 1) % 2 = 0 /\ n \in 1 .. Len(in.words)
    BY <1>1, <1>3
  <2>2. \A j \in 1 .. Len(in.words) :
          j % 2 = 1 /\ j < n + 2 <=> (j % 2 = 1 /\ j < n) \/ j = n
    BY <1>1, <1>3, <2>1
  <2>3. QED
    BY <1>1, <2>1, <2>2 DEF FirstWords
<1>4. ASSUME NEW n \in Nat, n > Len(in.words)
      PROVE  FirstWords(n) = FirstWords(Len(in.words) + 1)
  <2>1. \A j \in 1 .. Len(in.words) : j < n /\ j < Len(in.words) + 1
    BY <1>1, <1>4
  <2>2. QED
    BY <1>1, <2>1 DEF FirstWords
<1>5. QED
  BY <1>2, <1>3, <1>4

(***************************************************************************)
(* After the options nothing but the symbols changes what was asked for.   *)
(***************************************************************************)
LEMMA LaterAsked ==
  ASSUME Types, AskedInv, Arguing \/ Preparing \/ ReadCoverage \/ Finish
  PROVE  AskedInv'
<1>1. /\ in' = in /\ setting' = setting /\ in \in Inputs /\ next \in Nat \ {0}
      /\ phase \in {"arguments", "validate", "symbols", "reading"}
      /\ phase' \in {"arguments", "validate", "symbols", "reading", "done", "exited", "crashed"}
  BY DEF Arguing, TakeCoverageFile, TakeExecutable, CannotName, ArgumentsDone, MoreArguments,
         Preparing, Refuse, NoConstructor, Accept, LoadSymbol, SymbolsDone, ReadCoverage, Finish,
         Types
<1>2. Settled'
  <2>1. \A n : Asked(n)' = Asked(n)
    BY <1>1, AskedKept
  <2>2. \A n \in SettingNames \ {"verbose"} : setting[n] = Asked(n)
    BY <1>1 DEF AskedInv, Settled
  <2>3. QED
    BY <1>1, <2>1, <2>2 DEF Settled
<1>3. \A n : FirstWords(n)' = FirstWords(n)
  BY <1>1 DEF FirstWords
<1>4. Loaded'
  <2>1. CASE Arguing \/ Refuse \/ NoConstructor
    BY <2>1 DEF Arguing, TakeCoverageFile, TakeExecutable, CannotName, ArgumentsDone,
                MoreArguments, Refuse, NoConstructor, AskedInv, Loaded
  <2>2. CASE Accept
    <3>1. phase = "validate" /\ phase' = "symbols" /\ next' = 1 /\ symbols' = symbols
      BY <2>2 DEF Accept
    <3>2. symbols' = {} /\ FirstWords(1)' = {}
      BY <1>1, <1>3, <3>1, WordFacts DEF AskedInv, Loaded
    <3>3. (symbols = FirstWords(next))'
      BY <3>1, <3>2 DEF FirstWords
    <3>4. next' % 2 = 1
      BY ONLY <3>1
    <3>5. QED
      BY <3>1, <3>3, <3>4 DEF Loaded
  <2>3. CASE LoadSymbol
    <3>1. /\ phase = "symbols" /\ phase' = "symbols" /\ next <= Len(in.words)
          /\ symbols' = symbols \cup {in.words[next]} /\ next' = next + 2
      BY <2>3 DEF LoadSymbol
    <3>2. next % 2 = 1 /\ symbols = FirstWords(next)
      BY <3>1 DEF AskedInv, Loaded
    <3>3. symbols' = FirstWords(next + 2) /\ (next + 2) % 2 = 1
      BY <1>1, <3>1, <3>2, WordFacts
    <3>4. (symbols = FirstWords(next))' /\ (next % 2 = 1)'
      BY <1>1, <3>1, <3>3 DEF FirstWords
    <3>5. QED
      BY <3>1, <3>4 DEF Loaded
  <2>4. CASE SymbolsDone
    <3>1. phase = "symbols" /\ phase' = "reading" /\ next > Len(in.words) /\ symbols' = symbols
      BY <2>4 DEF SymbolsDone
    <3>2. symbols = FirstWords(next)
      BY <3>1 DEF AskedInv, Loaded
    <3>3. symbols' = FirstWords(Len(in.words) + 1)
      BY <1>1, <3>1, <3>2, WordFacts
    <3>4. (symbols = FirstWords(Len(in.words) + 1))'
      BY <1>1, <3>3 DEF FirstWords
    <3>5. QED
      BY <3>1, <3>4 DEF Loaded
  <2>5. CASE ReadCoverage \/ Finish
    <3>1. phase = "reading" /\ phase' \in {"reading", "done"} /\ symbols' = symbols
      BY <2>5 DEF ReadCoverage, Finish
    <3>2. symbols' = FirstWords(Len(in.words) + 1)
      BY <3>1 DEF AskedInv, Loaded
    <3>3. (symbols = FirstWords(Len(in.words) + 1))'
      BY <1>1, <3>2 DEF FirstWords
    <3>4. QED
      BY <3>1, <3>3 DEF Loaded
  <2>6. QED
    BY <2>1, <2>2, <2>3, <2>4, <2>5 DEF Preparing
<1>5. Taken'
  BY <1>1 DEF Taken
<1>6. QED
  BY <1>2, <1>4, <1>5 DEF AskedInv

\* Before the first option nothing has been read.
LEMMA InitAsked == Init => AskedInv
<1> SUFFICES ASSUME Init PROVE AskedInv
  OBVIOUS
<1>1. /\ in \in Inputs /\ phase = "options" /\ next = 1 /\ symbols = {}
      /\ option = [n \in OptionNames |-> NULL]
      /\ setting = [n \in SettingNames |-> IF n = "outputDirectory" THEN << "." >> ELSE NULL]
  BY DEF Init
<1>2. \A k \in Opened : \A j : ~Passed(k, j)
  <2>1. \A k \in Opened : ~(k < 1)
    BY <1>1, InputFacts, AskedSets
  <2>2. QED
    BY <1>1, <2>1 DEF Passed
<1>3. \A n \in OptionNames : OptionRight(n)
  BY <1>1, <1>2 DEF OptionRight
<1>4. \A n : \A k \in GivenBy(n) : k >= 1
  BY <1>1, InputFacts, AskedSets
<1>5. \A n \in SettingNames \ {"verbose"} : SettingRight(n)
  BY <1>1, <1>4 DEF SettingRight, Default
<1>6. QED
  BY <1>1, <1>3, <1>5 DEF AskedInv, Taken, Settled, Loaded

\* Every step keeps what was asked for.
LEMMA NextAsked == Types /\ AskedInv /\ [Next]_vars => AskedInv'
<1> SUFFICES ASSUME Types, AskedInv, [Next]_vars PROVE AskedInv'
  OBVIOUS
<1>1. CASE Optioning
  BY <1>1, OptioningAsked
<1>2. CASE Arguing \/ Preparing \/ ReadCoverage \/ Finish
  BY <1>2, LaterAsked
<1>3. CASE UNCHANGED vars
  <2>1. UNCHANGED << in, phase, next, line, option, setting, symbols >>
    BY <1>3 DEF vars
  <2>2. in \in Inputs /\ next \in Nat
    BY DEF Types
  <2>3. \A k, j : Passed(k, j)' <=> Passed(k, j)
    BY <2>1 DEF Passed
  <2>4. \A n : (OptionRight(n) => OptionRight(n)') /\ (SettingRight(n) => SettingRight(n)')
    <3>1. ASSUME NEW n PROVE OptionRight(n) => OptionRight(n)'
      BY <2>1, <2>3, OptionKept
    <3>2. ASSUME NEW n PROVE SettingRight(n) => SettingRight(n)'
      BY <2>1, <2>2, SettingKept
    <3>3. QED
      BY <3>1, <3>2
  <2>5. \A n : Asked(n)' = Asked(n) /\ FirstWords(n)' = FirstWords(n)
    BY <2>1, AskedKept DEF FirstWords
  <2>6. Taken'
    BY <2>1, <2>4 DEF AskedInv, Taken
  <2>7. Settled'
    BY <2>1, <2>5 DEF AskedInv, Settled
  <2>8. Loaded'
    BY <2>1 DEF AskedInv, Loaded, FirstWords
  <2>9. QED
    BY <2>6, <2>7, <2>8 DEF AskedInv
<1>4. QED
  BY <1>1, <1>2, <1>3 DEF Next, Optioning, Arguing, Preparing

(***************************************************************************)
(* What was asked for is what covoar works with, for every command line    *)
(* and all configuration and symbols files.                                *)
(***************************************************************************)
THEOREM AskedForCorrect == Spec => []AskedFor
<1>1. Init => Types /\ ListInv /\ AskedInv
  BY InitTypes, InitLists, InitAsked
<1>2. Types /\ ListInv /\ AskedInv /\ [Next]_vars => (Types /\ ListInv /\ AskedInv)'
  BY NextLists, NextAsked
<1>3. Types /\ AskedInv => AskedFor
  <2> SUFFICES ASSUME Types, AskedInv PROVE AskedFor
    OBVIOUS
  <2>1. phase \in {"arguments", "validate", "symbols", "reading", "done"} =>
          \A n \in SettingNames \ {"verbose"} :
            setting[n] = IF SetBy(n) # {} THEN LastSet(n)
                         ELSE IF GivenBy(n) # {} THEN LastGiven(n) ELSE Default(n)
    BY DEF AskedInv, Settled, Asked
  <2>2. phase \in {"reading", "done"} =>
          symbols = {in.words[k] : k \in {j \in DOMAIN in.words : j % 2 = 1}}
    <3>1. FirstWords(Len(in.words) + 1) =
            {in.words[k] : k \in {j \in DOMAIN in.words : j % 2 = 1}}
      <4>1. DOMAIN in.words = 1 .. Len(in.words) /\ Len(in.words) \in Nat
        BY InputFacts DEF Types
      <4>2. \A j \in 1 .. Len(in.words) : j < Len(in.words) + 1
        BY <4>1
      <4>3. QED
        BY <4>1, <4>2 DEF FirstWords
    <3>2. QED
      BY <3>1 DEF AskedInv, Loaded
  <2>3. QED
    BY <2>1, <2>2 DEF AskedFor
<1>4. QED
  BY <1>1, <1>2, <1>3, PTL DEF Spec
=============================================================================
