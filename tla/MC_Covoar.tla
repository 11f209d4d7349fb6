----------------------------- MODULE MC_Covoar -----------------------------
(***************************************************************************)
(* Small executables and coverage files for Covoar.  f and g are of        *)
(* interest, x is not.  Addresses run from 0 to 39.                        *)
(***************************************************************************)
EXTENDS Covoar

Lab(x, s)  == [kind |-> "label", offset |-> x, symbol |-> s]
Op(x, o)   == [kind |-> "insn", offset |-> x, op |-> o]

\* i386.  f: 4 bytes and padding; g: 3 bytes, a nop in the middle.
F(x) == << Lab(x, "f"), Text, Op(x, "mov"), Op(x + 2, "jne"), Op(x + 4, "nop"),
           Op(x + 5, "nop") >>
G(x) == << Lab(x, "g"), Op(x, "je"), Op(x + 1, "nop"), Op(x + 2, "ret") >>
X(x) == << Lab(x, "x"), Op(x, "ret"), Text >>

Plain     == F(4) \o G(10) \o X(13)
\* Other addresses and order; the last nop of g is cut off by source text.
Moved     == X(2) \o << Lab(4, "g"), Op(4, "je"), Op(5, "nop"), Op(6, "nop"), Text,
                        Op(7, "nop") >> \o F(8) \o X(14)
\* g twice, as two static functions.
Twice     == G(4) \o F(7) \o G(13) \o X(16)
\* f as the last symbol: its last instruction counts one byte.
Last      == X(3) \o G(4) \o << Lab(8, "f"), Op(8, "mov"), Op(10, "jne") >>
\* A longer f, and two g of different lengths.
Longer    == << Lab(4, "f"), Op(4, "mov"), Op(6, "jne"), Op(7, "mov"), Op(9, "ret"),
                Op(10, "xchg"), Op(12, "lea") >> \o X(15)
Differ    == G(4) \o << Lab(7, "g"), Op(7, "mov"), Op(8, "mov"), Op(10, "ret") >> \o X(11)

\* Instructions of four bytes: f has 8 bytes and padding, g has 12.  On the ARM
\* a table of literals follows f, on the SPARC the linker's fill.
Fill(cpu) == IF cpu = "arm" THEN << "short", "byte", "byte" >> ELSE << "nop" >>
FillAt(x, cpu) == [i \in DOMAIN Fill(cpu) |-> Op(x + (IF i = 1 THEN 0 ELSE i), Fill(cpu)[i])]
WideF(x, cpu) == << Lab(x, "f"), Op(x, "or"), Op(x + 4, "bne") >> \o FillAt(x + 8, cpu)
WideG(x) == << Lab(x, "g"), Op(x, "bne"), Op(x + 4, "nop"), Op(x + 8, "or") >>
Wide(cpu)      == WideF(4, cpu) \o WideG(16) \o X(28)
WideMoved(cpu) == WideG(4) \o WideF(16, cpu) \o X(28)

\* m68k: f of 8 bytes, ending in its own return.
Return    == << Lab(4, "f"), Op(4, "move"), Op(6, "beqs"), Op(8, "move"), Op(10, "rts") >>
             \o X(12)

Pairs(f, c, ds)    == [single |-> FALSE, format |-> f, cpu |-> c, dumps |-> ds,
                       loadAddress |-> [i \in DOMAIN ds |-> 0], files |-> Len(ds)]
Single(f, c, d, n) == [single |-> TRUE, format |-> f, cpu |-> c, dumps |-> << d >>,
                       loadAddress |-> << 0 >>, files |-> n]
Library(f, c, d, a) == [Single(f, c, d, 1) EXCEPT !.loadAddress = << a >>]

SoundInputs ==
  {Pairs(p[1], p[2], << Wide(p[2]), WideMoved(p[2]) >>) :
     p \in {<< "QEMU", "powerpc" >>, << "TSIM", "sparc" >>, << "Skyeye", "arm" >>,
            << "RTEMS", "lm32" >>}} \cup
  {Pairs("QEMU", "i386", << Plain, d >>) : d \in {Moved, Twice, Last, Longer, Differ}} \cup
  {Single("QEMU", "i386", Twice, 2), Library("QEMU", "i386", Plain, 6)}
ASSUME SoundAssumption == \A i \in SoundInputs : WellFormed(i) /\ Headed(i)

SingleInputs  == {Single("QEMU", "i386", Plain, 2)}
PaddingInputs == {Pairs("QEMU", "m68k", << Return >>)}

Block == {"block"}
SomeEntries ==
  {[pc |-> p, size |-> 4, op |-> o] :
     p \in {4, 8}, o \in {Block, Block \cup {"taken"}, Block \cup {"notTaken"}}} \cup
  {[pc |-> 10, size |-> 3, op |-> o] : o \in {Block, {"taken"}}} \cup
  {[pc |-> 13, size |-> 2, op |-> Block \cup {"taken", "notTaken"}],
   [pc |-> 7, size |-> 0, op |-> {"notTaken"}]}
=============================================================================
