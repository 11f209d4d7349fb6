-------------------------- MODULE QemuTrace_proofs --------------------------
(***************************************************************************)
(* Proofs about QemuTrace, for every set of logs, every disassembly and    *)
(* every load address.                                                     *)
(***************************************************************************)
EXTENDS QemuTrace, FiniteLemmas, SequenceTheorems, TLAPS

\* Every entry of objdumpList has an address.
LEMMA EntryFacts ==
  ASSUME NEW i \in objdumpList
  PROVE  i \in Nat /\ AddressOf(i) \in Nat /\ AddressOf(i) \in Addresses
<1>1. Dump \in Seq(DumpType) /\ Load \in Nat
  BY ConstantsAssumption
<1>2. i \in 1 .. Len(Dump) /\ Len(Dump) \in Nat
  BY <1>1, LenProperties DEF objdumpList
<1>3. Dump[i] \in DumpType
  BY <1>1, <1>2, ElementOfSeq
<1>4. QED
  BY <1>1, <1>2, <1>3 DEF AddressOf, Addresses, DumpType

\* getAddressAfter answers 0, or the successor of an address that is in the
\* list.
LEMMA AfterFacts ==
  ASSUME NEW a, GetAddressAfter(a) # 0
  PROVE  \E i, j \in objdumpList :
           /\ a = AddressOf(i) /\ GetAddressAfter(a) = AddressOf(j) /\ i < j
           /\ \A k \in objdumpList : k <= i \/ j <= k
<1> DEFINE found == {i \in objdumpList : AddressOf(i) = a}
<1> DEFINE behind == {i \in objdumpList : i > Min(found)}
<1>1. found # {} /\ behind # {} /\ GetAddressAfter(a) = AddressOf(Min(behind))
  BY DEF GetAddressAfter
<1>2. found \subseteq Nat /\ behind \subseteq Nat
  BY EntryFacts
<1> HIDE DEF found, behind
<1>3. Min(found) \in found
  <2>1. found \subseteq Int /\ 0 \in Int /\ \A x \in found : 0 <= x
    BY <1>2
  <2>2. QED
    BY <1>1, <2>1, MinFacts
<1>4. Min(behind) \in behind /\ \A y \in behind : Min(behind) <= y
  <2>1. behind \subseteq Int /\ 0 \in Int /\ \A x \in behind : 0 <= x
    BY <1>2
  <2>2. QED
    BY <1>1, <2>1, MinFacts
<1> DEFINE i == Min(found)
<1> DEFINE j == Min(behind)
<1>5. i \in objdumpList /\ a = AddressOf(i)
  BY <1>3 DEF found
<1>6. j \in objdumpList /\ i < j
  BY <1>4, <1>2, <1>3 DEF behind
<1>7. ASSUME NEW k \in objdumpList, ~ k <= i PROVE j <= k
  <2>1. k \in Nat /\ i \in Nat
    BY <1>5, EntryFacts
  <2>2. k \in behind
    BY <1>7, <2>1 DEF behind
  <2>3. QED
    BY <1>4, <2>2
<1>8. QED
  BY <1>1, <1>5, <1>6, <1>7

\* In an ascending disassembly the successor comes next by its address.
LEMMA AfterFollows ==
  ASSUME Ascending, NEW a, GetAddressAfter(a) # 0
  PROVE  /\ a \in Addresses /\ GetAddressAfter(a) \in Addresses
         /\ Follows(a, GetAddressAfter(a))
<1>1. PICK i, j \in objdumpList :
        /\ a = AddressOf(i) /\ GetAddressAfter(a) = AddressOf(j) /\ i < j
        /\ \A k \in objdumpList : k <= i \/ j <= k
  BY AfterFacts
<1>2. AddressOf(i) < AddressOf(j)
  BY <1>1 DEF Ascending
<1>3. ASSUME NEW c \in Addresses PROVE c <= AddressOf(i) \/ AddressOf(j) <= c
  <2>1. PICK k \in objdumpList : c = AddressOf(k)
    BY DEF Addresses
  <2>2. i \in Nat /\ j \in Nat /\ k \in Nat /\ AddressOf(i) \in Nat /\ AddressOf(j) \in Nat /\ AddressOf(k) \in Nat
    BY EntryFacts
  <2>3. k < i \/ k = i \/ k = j \/ j < k
    BY <1>1, <2>2
  <2>4. CASE k < i
    <3>1. AddressOf(k) < AddressOf(i)
      BY <2>4 DEF Ascending
    <3>2. QED
      BY <2>1, <2>2, <3>1
  <2>5. CASE j < k
    <3>1. AddressOf(j) < AddressOf(k)
      BY <2>5 DEF Ascending
    <3>2. QED
      BY <2>1, <2>2, <3>1
  <2>6. QED
    BY <2>1, <2>2, <2>3, <2>4, <2>5
<1>4. AddressOf(i) \in Addresses /\ AddressOf(j) \in Addresses
  BY EntryFacts
<1>5. QED
  BY <1>1, <1>2, <1>3, <1>4 DEF Follows

\* The address after an instruction is a number.
LEMMA AfterType == ASSUME NEW a PROVE GetAddressAfter(a) \in Nat
<1>1. CASE GetAddressAfter(a) = 0
  BY <1>1
<1>2. CASE GetAddressAfter(a) # 0
  BY <1>2, AfterFacts, EntryFacts
<1>3. QED
  BY <1>1, <1>2
-----------------------------------------------------------------------------
(***************************************************************************)
(* Types.                                                                  *)
(***************************************************************************)
\* ReadUntilFound stops at a line ahead or at the end.
LEMMA AheadFacts ==
  ASSUME TypeOK, NEW kind
  PROVE  /\ Len(log) \in Nat /\ pos \in Nat /\ pos <= Len(log)
         /\ Ahead(kind) # {} =>
              /\ Min(Ahead(kind)) \in pos + 1 .. Len(log)
              /\ log[Min(Ahead(kind))].kind = kind
              /\ \A i \in pos + 1 .. Len(log) : log[i].kind = kind => Min(Ahead(kind)) <= i
<1>1. Len(log) \in Nat /\ pos \in Nat /\ pos <= Len(log)
  <2>1. Len(log) \in Nat
    BY LenProperties DEF TypeOK
  <2>2. QED
    BY <2>1 DEF TypeOK
<1> DEFINE A == Ahead(kind)
<1>2. A \subseteq Int /\ 0 \in Int /\ \A x \in A : 0 <= x
  BY <1>1 DEF Ahead
<1>3. A # {} => Min(A) \in A /\ \A y \in A : Min(A) <= y
  <2> HIDE DEF A
  <2>1. QED
    BY <1>2, MinFacts
<1>4. QED
  BY <1>1, <1>3 DEF Ahead

\* What a line leaves behind is an instruction.
LEMMA ScannedType ==
  ASSUME NEW l \in LineType, NEW b \in Instruction
  PROVE  Scanned(l, b) \in Instruction
BY DEF Scanned, LineType, Instruction

\* A line of the log is a line.
LEMMA LogLine ==
  ASSUME TypeOK, NEW i \in 1 .. Len(log)
  PROVE  log[i] \in LineType
BY LenProperties, ElementOfSeq DEF TypeOK

\* fgets leaves a line in the buffer.
LEMMA FgetsType ==
  ASSUME TypeOK
  PROVE  NextLine \in LineType /\ (Fgets => inputBuffer' \in LineType /\ pos' \in 0 .. Len(log))
<1>1. Len(log) \in Nat /\ pos \in Nat /\ pos <= Len(log)
  BY AheadFacts
<1>2. NextLine \in LineType
  <2>1. CASE AtEnd
    BY <2>1 DEF TypeOK, NextLine
  <2>2. CASE ~AtEnd
    <3>1. pos + 1 \in 1 .. Len(log)
      BY <1>1, <2>2 DEF AtEnd
    <3>2. QED
      BY <2>2, <3>1, LogLine DEF NextLine
  <2>3. QED
    BY <2>1, <2>2
<1>3. QED
  BY <1>1, <1>2 DEF Fgets, AtEnd

\* The variables start within their types.
LEMMA InitType == Init => TypeOK
<1> SUFFICES ASSUME Init PROVE TypeOK
  OBVIOUS
<1>2. log \in Seq(LineType)
  BY ConstantsAssumption DEF Init
<1>3. Len(log) \in Nat
  BY <1>2, LenProperties
<1>4. pos \in 0 .. Len(log)
  BY <1>3 DEF Init
<1>5. inputBuffer \in LineType /\ {first, last, nextExecuted} \subseteq Instruction
  BY DEF Init, LineType, NoInstruction, Instruction
<1>6. trace \in Seq(Range16) /\ file \in [stale : BOOLEAN, entries : Seq(Entry)]
  BY EmptySeq DEF Init
<1>7. QED
  BY <1>2, <1>4, <1>5, <1>6 DEF Init, TypeOK

\* Reading lines keeps the types,
LEMMA ReadingType ==
  ASSUME TypeOK, SkipHeader \/ FindFirst \/ ReadFirst \/ ReadInstruction
  PROVE  TypeOK'
<1>1. log' = log /\ trace' = trace /\ file' = file /\ nextExecuted' = nextExecuted
  BY DEF SkipHeader, FindFirst, ReadFirst, ReadInstruction
<1>2. CASE SkipHeader \/ FindFirst
  <2>1. pos' \in 0 .. Len(log)
    BY <1>2, AheadFacts DEF SkipHeader, FindFirst, ReadUntilFound
  <2>2. QED
    BY <1>1, <1>2, <2>1 DEF SkipHeader, FindFirst, TypeOK
<1>3. CASE ReadFirst \/ ReadInstruction
  <2>1. inputBuffer' \in LineType /\ pos' \in 0 .. Len(log)
    BY <1>3, FgetsType DEF ReadFirst, ReadInstruction
  <2>2. first' \in Instruction /\ last' \in Instruction
    BY <1>3, FgetsType, ScannedType DEF ReadFirst, ReadInstruction, TypeOK
  <2>3. pc' \in {"block", "open", "end"}
    BY <1>3 DEF ReadFirst, ReadInstruction
  <2>4. QED
    BY <1>1, <2>1, <2>2, <2>3 DEF TypeOK
<1>4. QED
  BY <1>2, <1>3

\* ... ending a block does,
LEMMA EndBlockType ==
  ASSUME TypeOK, EndBlock
  PROVE  TypeOK'
<1> DEFINE logical == GetAddressAfter(last.address)
<1> DEFINE i == Min(Ahead("in"))
<1> DEFINE ended == Ahead("in") = {}
<1>1. /\ inputBuffer' = IF ended THEN inputBuffer ELSE LookAhead(i)
      /\ pos' = IF ended \/ i = Len(log) THEN Len(log) ELSE i + 1
      /\ nextExecuted' = IF ended THEN last ELSE Scanned(LookAhead(i), nextExecuted)
      /\ trace' = IF logical = 0 THEN trace
                  ELSE Add(first.address, logical, ExitReason(nextExecuted', logical))
      /\ first' = nextExecuted' /\ last' = nextExecuted'
      /\ pc' \in {"open", "block"} /\ log' = log /\ file' = file
  BY DEF EndBlock
<1>2. Len(log) \in Nat /\ (~ended => i \in 1 .. Len(log))
  BY AheadFacts
<1>3. ~ended => LookAhead(i) \in LineType
  <2>1. CASE ~ended /\ i < Len(log)
    <3>1. i + 1 \in 1 .. Len(log)
      BY <1>2, <2>1
    <3>2. QED
      BY <2>1, <3>1, LogLine DEF LookAhead
  <2>2. QED
    BY <2>1 DEF LookAhead, TypeOK
<1> HIDE DEF i
<1>4. inputBuffer' \in LineType /\ nextExecuted' \in Instruction /\ pos' \in 0 .. Len(log)
  BY <1>1, <1>2, <1>3, ScannedType DEF TypeOK
<1>5. trace' \in Seq(Range16)
  <2>1. first.address \in Nat /\ logical \in Nat
    BY AfterType DEF TypeOK, Instruction
  <2>2. ExitReason(nextExecuted', logical) \in Reason
    BY DEF ExitReason, Reason
  <2> DEFINE r == [lowAddress |-> first.address, length |-> (logical - first.address) % HalfWord,
                   exitReason |-> ExitReason(nextExecuted', logical)]
  <2>3. (logical - first.address) % HalfWord \in 0 .. HalfWord - 1
    BY <2>1, ConstantsAssumption
  <2>4. r \in Range16
    BY <2>1, <2>2, <2>3 DEF Range16
  <2>5. trace' = trace \/ trace' = Append(trace, r)
    BY <1>1 DEF Add
  <2>6. trace \in Seq(Range16)
    BY DEF TypeOK
  <2> HIDE DEF r
  <2>7. QED
    BY <2>4, <2>5, <2>6, AppendProperties
<1>6. QED
  BY <1>1, <1>4, <1>5 DEF TypeOK

\* ... and writing the trace does.
LEMMA WritingType ==
  ASSUME TypeOK, NoFile \/ OpenFile \/ WriteEntry \/ WriteFails \/ CloseFile
  PROVE  TypeOK'
<1>1. /\ log' = log /\ pos' = pos /\ inputBuffer' = inputBuffer /\ trace' = trace
      /\ first' = first /\ last' = last /\ nextExecuted' = nextExecuted
      /\ pc' \in {"write", "written", "failed"}
  BY DEF NoFile, OpenFile, WriteEntry, WriteFails, CloseFile, reader
<1>2. file' \in [stale : BOOLEAN, entries : Seq(Entry)]
  <2>1. file \in [stale : BOOLEAN, entries : Seq(Entry)]
    BY DEF TypeOK
  <2>2. CASE NoFile \/ WriteFails \/ CloseFile
    BY <2>1, <2>2 DEF NoFile, WriteFails, CloseFile
  <2>3. CASE OpenFile
    BY <2>3, EmptySeq DEF OpenFile
  <2>4. CASE WriteEntry
    <3> DEFINE k == Len(file.entries) + 1
    <3>1. k \in 1 .. Len(trace)
      <4>1. Len(file.entries) \in Nat /\ Len(trace) \in Nat
        BY <2>1, LenProperties DEF TypeOK
      <4>2. Len(file.entries) < Len(trace)
        BY <2>4 DEF WriteEntry
      <4>3. QED
        BY <4>1, <4>2
    <3>2. trace[k] \in Range16
      BY <3>1, LenProperties, ElementOfSeq DEF TypeOK
    <3>3. EntryOf(trace[k]) \in Entry
      BY <3>2 DEF EntryOf, Entry, Range16, Reason
    <3>4. file.entries \in Seq(Entry)
      BY <2>1
    <3>5. file' = [file EXCEPT !.entries = Append(file.entries, EntryOf(trace[k]))]
      BY <2>4 DEF WriteEntry
    <3> HIDE DEF k
    <3>6. Append(file.entries, EntryOf(trace[k])) \in Seq(Entry)
      BY <3>3, <3>4, AppendProperties
    <3>7. QED
      BY <2>1, <3>5, <3>6
  <2>5. QED
    BY <2>2, <2>3, <2>4
<1>3. QED
  BY <1>1, <1>2 DEF TypeOK

\* Every step keeps the types.
LEMMA NextType == TypeOK /\ [Next]_vars => TypeOK'
<1>1. ASSUME TypeOK, UNCHANGED vars PROVE TypeOK'
  BY <1>1 DEF TypeOK, vars
<1>2. QED
  BY <1>1, ReadingType, EndBlockType, WritingType DEF Next

(***************************************************************************)
(* TypeOK holds: the variables stay within the types of the code, whatever *)
(* the log says and wherever it stops (TraceReaderLogQEMU::processFile,    *)
(* TraceWriterQEMU::writeFile).                                            *)
(***************************************************************************)
THEOREM TypeCorrect == Spec => []TypeOK
BY InitType, NextType, PTL DEF Spec
-----------------------------------------------------------------------------
(***************************************************************************)
(* NothingInvented.  While a block is read, the addresses of the           *)
(* disassembly from its first to its last instruction so far are in the    *)
(* log (Spanned); what keeps this true is that last is the instruction of  *)
(* the line read last, except where the file is at its end and fgets left  *)
(* an older line in the buffer (Behind).  So the ranges in the trace, and  *)
(* the entries written from them, show addresses of the log only.          *)
(***************************************************************************)
Spanned ==
  last.address \in Addresses =>
    /\ first.address <= last.address
    /\ \A a \in Addresses : first.address <= a /\ a <= last.address => a \in Logged

Behind ==
  \/ /\ pos \in 1 .. Len(log) /\ Shown(log[pos])
     /\ last.address = log[pos].address /\ inputBuffer = log[pos]
  \/ /\ pos = Len(log) /\ ~Parsed(inputBuffer)
     /\ Shown(inputBuffer) => inputBuffer.address = last.address

Buffered ==
  /\ Shown(inputBuffer) => inputBuffer.address \in Logged
  /\ pc \in {"header", "find", "first"} => ~Shown(inputBuffer)
  /\ pc = "end" => ~Parsed(inputBuffer)

Within(r)   == \A a \in Addresses : r.lowAddress <= a /\ a < r.lowAddress + r.length => a \in Logged
TraceLogged == \A k \in DOMAIN trace : Within(trace[k])
Written ==
  ~file.stale => /\ Len(file.entries) <= Len(trace)
                 /\ \A k \in DOMAIN file.entries : file.entries[k] = EntryOf(trace[k])

LoggedInv ==
  /\ TypeOK /\ Buffered /\ TraceLogged /\ Written
  /\ pc \in {"header", "find", "first", "block", "end"} => nextExecuted.address \in Logged \cup {0}
  /\ pc \in {"block", "end"} => Spanned
  /\ pc = "block" => Behind

\* A line of the log with an address is in Logged, whatever is read next.
LEMMA LoggedFacts ==
  ASSUME TypeOK
  PROVE  /\ \A i \in 1 .. Len(log) : Shown(log[i]) => log[i].address \in Logged
         /\ log' = log => Logged' = Logged
<1>1. DOMAIN log = 1 .. Len(log)
  BY LenProperties DEF TypeOK
<1>2. QED
  BY <1>1 DEF Logged

\* Scanned takes the address of a line that shows one, and keeps the others.
LEMMA ScannedAddress ==
  ASSUME NEW l \in LineType, NEW b \in Instruction
  PROVE  Scanned(l, b).address = IF Shown(l) THEN l.address ELSE b.address
BY DEF Scanned, Shown, LineType, Instruction

\* Addresses are numbers.
LEMMA AddressType ==
  ASSUME NEW a \in Addresses
  PROVE  a \in Nat
BY EntryFacts DEF Addresses

\* The span of one instruction.
LEMMA SpanOfOne ==
  ASSUME TypeOK, Ascending, first = last, last.address \in Logged \cup {0}
  PROVE  Spanned
<1>1. last.address \in Nat
  BY DEF TypeOK, Instruction
<1>2. ASSUME NEW a \in Addresses, first.address <= a, a <= last.address, last.address \in Addresses
      PROVE  a \in Logged
  <2>1. a = last.address
    BY <1>1, <1>2, AddressType
  <2>2. a # 0
    BY DEF Ascending
  <2>3. QED
    BY <2>1, <2>2
<1>3. QED
  BY <1>1, <1>2 DEF Spanned

\* Before anything is read nothing is invented.
LEMMA InitLogged == Init => LoggedInv
<1> SUFFICES ASSUME Init PROVE LoggedInv
  OBVIOUS
<1>1. TypeOK
  BY InitType
<1>2. Buffered
  BY DEF Init, Buffered, Shown
<1>3. TraceLogged /\ Written
  BY DEF Init, TraceLogged, Written
<1>4. nextExecuted.address = 0 /\ pc = "header"
  BY DEF Init, NoInstruction
<1>5. QED
  BY <1>1, <1>2, <1>3, <1>4 DEF LoggedInv

\* The steps to the first block.
LEMMA HeaderLogged ==
  ASSUME LoggedInv, SkipHeader \/ FindFirst
  PROVE  LoggedInv'
<1>1. /\ log' = log /\ inputBuffer' = inputBuffer /\ nextExecuted' = nextExecuted
      /\ trace' = trace /\ file' = file /\ pc \in {"header", "find"}
      /\ pc' \in {"find", "first", "open"}
  BY DEF SkipHeader, FindFirst
<1>2. TypeOK /\ TypeOK'
  BY ReadingType DEF LoggedInv
<1>3. Logged' = Logged
  BY <1>1, <1>2, LoggedFacts
<1>4. Buffered'
  BY <1>1, <1>3 DEF LoggedInv, Buffered
<1>5. TraceLogged'
  BY <1>1, <1>3 DEF LoggedInv, TraceLogged, Within
<1>6. QED
  BY <1>1, <1>2, <1>3, <1>4, <1>5 DEF LoggedInv, Written

\* The first instruction of a block is in the log.
LEMMA ReadFirstLogged ==
  ASSUME LoggedInv, Ascending, ReadFirst
  PROVE  LoggedInv'
<1>1. /\ log' = log /\ nextExecuted' = nextExecuted /\ trace' = trace /\ file' = file
      /\ inputBuffer' = NextLine /\ pos' = (IF AtEnd THEN pos ELSE pos + 1)
      /\ first' = Scanned(NextLine, first) /\ last' = first' /\ pc = "first"
      /\ pc' = IF Parsed(NextLine) THEN "block" ELSE "open"
  BY DEF ReadFirst, Fgets
<1>2. TypeOK /\ TypeOK' /\ NextLine \in LineType /\ first \in Instruction
  BY ReadingType, FgetsType DEF LoggedInv, TypeOK
<1>3. Logged' = Logged
  BY <1>1, <1>2, LoggedFacts
<1>4. Len(log) \in Nat /\ pos \in Nat /\ pos <= Len(log)
  BY <1>2, AheadFacts
<1>5. CASE ~Parsed(NextLine)
  <2>1. Shown(NextLine) => NextLine.address \in Logged
    <3>1. CASE AtEnd
      BY <3>1 DEF NextLine, LoggedInv, Buffered
    <3>2. CASE ~AtEnd
      <4>1. pos + 1 \in 1 .. Len(log) /\ NextLine = log[pos + 1]
        BY <1>4, <3>2 DEF AtEnd, NextLine
      <4>2. QED
        BY <1>2, <4>1, LoggedFacts
    <3>3. QED
      BY <3>1, <3>2
  <2>2. Buffered'
    BY <1>1, <1>3, <1>5, <2>1 DEF Buffered
  <2>3. TraceLogged'
    BY <1>1, <1>3 DEF LoggedInv, TraceLogged, Within
  <2>4. QED
    BY <1>1, <1>2, <1>3, <1>5, <2>2, <2>3 DEF LoggedInv, Written
<1>6. CASE Parsed(NextLine)
  <2>1. ~AtEnd
    BY <1>1, <1>6 DEF NextLine, LoggedInv, Buffered, Shown, Parsed
  <2>2. pos + 1 \in 1 .. Len(log) /\ NextLine = log[pos + 1] /\ pos' = pos + 1
    BY <1>1, <1>4, <2>1 DEF AtEnd, NextLine
  <2>3. Shown(NextLine) /\ NextLine.address \in Logged
    BY <1>2, <1>6, <2>2, LoggedFacts DEF Parsed, Shown
  <2>4. last'.address = NextLine.address
    BY <1>1, <1>2, <2>3, ScannedAddress
  <2>5. Behind'
    BY <1>1, <2>2, <2>3, <2>4 DEF Behind
  <2>6. Spanned'
    <3>1. last'.address \in Nat
      BY <1>2 DEF TypeOK, Instruction
    <3>2. \A a \in Addresses : last'.address <= a /\ a <= last'.address => a = last'.address
      BY <3>1, AddressType
    <3>3. QED
      BY <1>1, <1>3, <2>3, <2>4, <3>1, <3>2 DEF Spanned
  <2>7. Buffered'
    BY <1>1, <1>3, <1>6, <2>3 DEF Buffered
  <2>8. TraceLogged'
    BY <1>1, <1>3 DEF LoggedInv, TraceLogged, Within
  <2>9. QED
    BY <1>1, <1>2, <1>3, <1>6, <2>5, <2>6, <2>7, <2>8 DEF LoggedInv, Written
<1>7. QED
  BY <1>5, <1>6

\* A further instruction of the block is in the log as well, and so is
\* everything between the first and this one.
LEMMA ReadInstructionLogged ==
  ASSUME LoggedInv, Ascending, StraightLine(log), ReadInstruction
  PROVE  LoggedInv'
<1>1. /\ log' = log /\ nextExecuted' = nextExecuted /\ trace' = trace /\ file' = file
      /\ inputBuffer' = NextLine /\ pos' = (IF AtEnd THEN pos ELSE pos + 1)
      /\ first' = first /\ last' = Scanned(NextLine, last) /\ pc = "block"
      /\ pc' = IF Parsed(NextLine) THEN "block" ELSE "end"
  BY DEF ReadInstruction, Fgets
<1>2. TypeOK /\ TypeOK' /\ NextLine \in LineType /\ last \in Instruction /\ first.address \in Nat
  BY ReadingType, FgetsType DEF LoggedInv, TypeOK, Instruction
<1>3. Logged' = Logged
  BY <1>1, <1>2, LoggedFacts
<1>4. Len(log) \in Nat /\ pos \in Nat /\ pos <= Len(log)
  BY <1>2, AheadFacts
<1>5. last'.address = IF Shown(NextLine) THEN NextLine.address ELSE last.address
  BY <1>1, <1>2, ScannedAddress
<1>6. Spanned /\ Behind
  BY <1>1 DEF LoggedInv
<1>7. CASE AtEnd
  <2>1. NextLine = inputBuffer /\ pos' = pos
    BY <1>1, <1>7 DEF NextLine
  <2>2. last'.address = last.address
    BY <1>5, <1>6, <2>1 DEF Behind
  <2>3. Spanned'
    BY <1>1, <1>3, <1>6, <2>2 DEF Spanned
  <2>4. Behind'
    BY <1>1, <1>6, <2>1, <2>2 DEF Behind
  <2>5. Buffered'
    BY <1>1, <1>3, <2>1 DEF Buffered, LoggedInv
  <2>6. TraceLogged'
    BY <1>1, <1>3 DEF LoggedInv, TraceLogged, Within
  <2>7. QED
    BY <1>1, <1>2, <1>3, <2>3, <2>4, <2>5, <2>6 DEF LoggedInv, Written
<1>8. CASE ~AtEnd
  <2>1. pos + 1 \in 1 .. Len(log) /\ NextLine = log[pos + 1] /\ pos' = pos + 1 /\ pos # Len(log)
    BY <1>1, <1>4, <1>8 DEF NextLine, AtEnd
  <2>2. pos \in 1 .. Len(log) - 1 /\ Shown(log[pos]) /\ last.address = log[pos].address
    BY <1>4, <1>6, <2>1 DEF Behind
  <2>3. Shown(NextLine) => NextLine.address \in Logged
    BY <1>2, <2>1, LoggedFacts
  <2>4. Spanned'
    <3>1. CASE ~Shown(NextLine)
      BY <1>1, <1>3, <1>5, <1>6, <3>1 DEF Spanned
    <3>2. CASE Shown(NextLine)
      <4>1. SUFFICES ASSUME last'.address \in Addresses
                     PROVE  /\ first.address <= last'.address
                            /\ \A a \in Addresses : first.address <= a /\ a <= last'.address => a \in Logged
        BY <1>1, <1>3 DEF Spanned
      <4>2. last.address \in Addresses /\ Follows(last.address, last'.address)
        BY <1>5, <2>1, <2>2, <3>2, <4>1 DEF StraightLine
      <4>3. first.address <= last.address
        BY <1>6, <4>2 DEF Spanned
      <4>4. last.address \in Nat /\ last'.address \in Nat
        BY <4>1, <4>2, AddressType
      <4>5. ASSUME NEW a \in Addresses, first.address <= a, a <= last'.address PROVE a \in Logged
        <5>1. a <= last.address \/ last'.address <= a
          BY <4>2 DEF Follows
        <5>2. CASE a <= last.address
          BY <1>6, <4>2, <4>5, <5>2 DEF Spanned
        <5>3. CASE last'.address <= a
          <6>1. a = last'.address
            BY <4>4, <4>5, <5>3, AddressType
          <6>2. QED
            BY <1>5, <2>3, <3>2, <6>1
        <5>4. QED
          BY <5>1, <5>2, <5>3
      <4>6. QED
        BY <1>2, <4>2, <4>3, <4>4, <4>5 DEF Follows
    <3>3. QED
      BY <3>1, <3>2
  <2>5. Parsed(NextLine) => Behind'
    BY <1>1, <1>5, <2>1 DEF Behind, Parsed, Shown
  <2>6. Buffered'
    BY <1>1, <1>3, <2>3 DEF Buffered
  <2>7. TraceLogged'
    BY <1>1, <1>3 DEF LoggedInv, TraceLogged, Within
  <2>8. QED
    BY <1>1, <1>2, <1>3, <2>4, <2>5, <2>6, <2>7 DEF LoggedInv, Written
<1>9. QED
  BY <1>7, <1>8

\* The entry made of a block covers what was logged.
LEMMA EndBlockLogged ==
  ASSUME LoggedInv, Ascending, StraightLine(log), EndBlock
  PROVE  LoggedInv'
<1> DEFINE logical == GetAddressAfter(last.address)
<1> DEFINE i == Min(Ahead("in"))
<1> DEFINE ended == Ahead("in") = {}
<1>1. /\ inputBuffer' = IF ended THEN inputBuffer ELSE LookAhead(i)
      /\ pos' = IF ended \/ i = Len(log) THEN Len(log) ELSE i + 1
      /\ nextExecuted' = IF ended THEN last ELSE Scanned(LookAhead(i), nextExecuted)
      /\ trace' = IF logical = 0 THEN trace
                  ELSE Add(first.address, logical, ExitReason(nextExecuted', logical))
      /\ first' = nextExecuted' /\ last' = nextExecuted' /\ pc = "end"
      /\ pc' = (IF ended THEN "open" ELSE "block") /\ log' = log /\ file' = file
  BY DEF EndBlock
<1>2. TypeOK /\ TypeOK' /\ last \in Instruction /\ first \in Instruction /\ nextExecuted \in Instruction
  BY EndBlockType DEF LoggedInv, TypeOK
<1>3. Logged' = Logged
  BY <1>1, <1>2, LoggedFacts
<1>4. /\ Len(log) \in Nat
      /\ ~ended => i \in 1 .. Len(log) /\ log[i].kind = "in"
  BY <1>2, AheadFacts
<1>5. Buffered /\ Spanned
  BY <1>1 DEF LoggedInv
<1>6. TraceLogged'
  <2>1. CASE logical = 0
    BY <1>1, <1>3, <2>1 DEF LoggedInv, TraceLogged, Within
  <2>2. CASE logical # 0
    <3> DEFINE r == [lowAddress |-> first.address, length |-> (logical - first.address) % HalfWord,
                     exitReason |-> ExitReason(nextExecuted', logical)]
    <3>1. trace' = Append(trace, r)
      BY <1>1, <2>2 DEF Add
    <3>2. last.address \in Addresses /\ logical \in Addresses /\ Follows(last.address, logical)
      BY <2>2, AfterFollows
    <3>3. first.address \in Nat /\ last.address \in Nat /\ logical \in Nat
      BY <1>2, AfterType DEF Instruction
    <3>4. first.address <= last.address /\ last.address < logical
      BY <1>5, <3>2 DEF Spanned, Follows
    <3>5. logical - first.address \in Nat
      BY <3>3, <3>4
    <3>6. (logical - first.address) % HalfWord <= logical - first.address
      <4> HIDE DEF logical
      <4>1. \A n \in Nat, w \in Nat \ {0} : n % w <= n
        OBVIOUS
      <4>2. QED
        BY <3>5, <4>1, ConstantsAssumption
    <3>7. (logical - first.address) % HalfWord \in Nat
      BY <3>5, ConstantsAssumption
    <3> DEFINE n == (logical - first.address) % HalfWord
    <3>8. n \in Nat /\ n <= logical - first.address /\ r.lowAddress = first.address /\ r.length = n
      BY <3>6, <3>7
    <3>9. Within(r)
      <4> HIDE DEF n, logical, r
      <4>1. SUFFICES ASSUME NEW a \in Addresses, first.address <= a, a < first.address + n
                     PROVE  a \in Logged
        BY <3>8 DEF Within
      <4>2. a \in Nat
        BY AddressType
      <4>3. a < logical
        BY <3>3, <3>8, <4>1, <4>2
      <4>4. a <= last.address \/ logical <= a
        BY <3>2 DEF Follows
      <4>5. a <= last.address
        BY <3>3, <4>2, <4>3, <4>4
      <4>6. QED
        BY <1>5, <3>2, <4>1, <4>5 DEF Spanned
    <3> HIDE DEF r
    <3>10. trace \in Seq(Range16)
      BY <1>2 DEF TypeOK
    <3>11. r \in Range16
      <4>1. trace' \in Seq(Range16) /\ Len(trace') = Len(trace) + 1 /\ trace'[Len(trace) + 1] = r
        BY <1>2, <3>1, <3>10 DEF TypeOK
      <4>2. QED
        BY <3>10, <4>1, LenProperties, ElementOfSeq
    <3>12. ASSUME NEW k \in DOMAIN trace' PROVE Within(trace'[k])
      <4>1. /\ DOMAIN trace' = 1 .. Len(trace) + 1 /\ DOMAIN trace = 1 .. Len(trace)
            /\ Len(trace) \in Nat /\ trace'[Len(trace) + 1] = r
            /\ \A j \in 1 .. Len(trace) : trace'[j] = trace[j]
        BY <3>1, <3>10, <3>11, AppendProperties, LenProperties
      <4>2. k = Len(trace) + 1 \/ k \in DOMAIN trace
        BY <4>1
      <4>3. QED
        BY <3>9, <4>1, <4>2 DEF LoggedInv, TraceLogged
    <3>13. QED
      BY <1>3, <3>12 DEF TraceLogged, Within
  <2>3. QED
    BY <2>1, <2>2
<1>7. Written'
  <2>1. \/ trace' = trace
        \/ \E r : trace' = Append(trace, r)
    BY <1>1 DEF Add
  <2>2. trace \in Seq(Range16) /\ trace' \in Seq(Range16)
    BY <1>2 DEF TypeOK
  <2>3. Len(trace) <= Len(trace') /\ \A k \in 1 .. Len(trace) : trace'[k] = trace[k]
    BY <2>1, <2>2
  <2>4. file.entries \in Seq(Entry)
    BY <1>2 DEF TypeOK
  <2>5. /\ Len(file.entries) \in Nat /\ Len(trace) \in Nat /\ Len(trace') \in Nat
        /\ DOMAIN file.entries = 1 .. Len(file.entries)
    BY <2>2, <2>4, LenProperties
  <2>6. QED
    BY <1>1, <2>3, <2>5 DEF LoggedInv, Written
<1>8. CASE ended
  <2>1. pc' = "open" /\ inputBuffer' = inputBuffer /\ nextExecuted' = last
    BY <1>1, <1>8
  <2>2. Buffered'
    BY <1>3, <1>5, <2>1 DEF Buffered
  <2>3. QED
    BY <1>2, <1>6, <1>7, <2>1, <2>2 DEF LoggedInv
<1>9. CASE ~ended
  <2> DEFINE l == LookAhead(i)
  <2>1. l \in LineType /\ (i < Len(log) => i + 1 \in 1 .. Len(log) /\ l = log[i + 1])
    <3>1. CASE i < Len(log)
      <4>1. i + 1 \in 1 .. Len(log) /\ l = log[i + 1]
        BY <1>4, <1>9, <3>1 DEF LookAhead
      <4>2. QED
        BY <1>2, <4>1, LogLine
    <3>2. CASE ~ i < Len(log)
      BY <1>2, <3>2 DEF LookAhead, TypeOK
    <3>3. QED
      BY <3>1, <3>2
  <2>2. nextExecuted' = Scanned(l, nextExecuted) /\ inputBuffer' = l /\ pc' = "block"
    BY <1>1, <1>9
  <2>3. nextExecuted'.address = IF Shown(l) THEN l.address ELSE nextExecuted.address
    BY <1>2, <2>1, <2>2, ScannedAddress
  <2>4. Shown(l) => l.address \in Logged
    <3>1. CASE i < Len(log)
      BY <1>2, <2>1, <3>1, LoggedFacts
    <3>2. CASE ~ i < Len(log)
      BY <1>5, <3>2 DEF LookAhead, Buffered
    <3>3. QED
      BY <3>1, <3>2
  <2>5. nextExecuted'.address \in Logged \cup {0}
    BY <1>1, <2>3, <2>4 DEF LoggedInv
  <2>6. Spanned'
    <3>1. last'.address \in Nat
      BY <1>2 DEF TypeOK, Instruction
    <3>2. \A a \in Addresses : last'.address <= a /\ a <= last'.address => a = last'.address
      BY <3>1, AddressType
    <3>3. last'.address \in Addresses => last'.address \in Logged
      BY <1>1, <2>5 DEF Ascending
    <3>4. QED
      BY <1>1, <1>3, <3>1, <3>2, <3>3 DEF Spanned
  <2>7. Behind'
    <3>1. CASE i < Len(log)
      <4>1. pos' = i + 1 /\ i \in 1 .. Len(log) - 1
        BY <1>1, <1>4, <1>9, <3>1
      <4>2. Shown(l)
        BY <1>4, <1>9, <2>1, <3>1, <4>1 DEF StraightLine
      <4>3. QED
        BY <1>1, <2>1, <2>2, <2>3, <3>1, <4>1, <4>2 DEF Behind
    <3>2. CASE ~ i < Len(log)
      <4>1. pos' = Len(log) /\ l = inputBuffer
        BY <1>1, <1>4, <1>9, <3>2 DEF LookAhead
      <4>2. ~Parsed(l)
        BY <1>1, <1>5, <4>1 DEF Buffered
      <4>3. QED
        BY <1>1, <2>2, <2>3, <4>1, <4>2 DEF Behind
    <3>3. QED
      BY <3>1, <3>2
  <2>8. Buffered'
    BY <1>3, <2>2, <2>4 DEF Buffered
  <2>9. QED
    BY <1>2, <1>3, <1>6, <1>7, <2>2, <2>5, <2>6, <2>7, <2>8 DEF LoggedInv
<1>10. QED
  BY <1>8, <1>9

\* The entries written are those of the trace, in its order.
LEMMA WritingWritten ==
  ASSUME TypeOK, Written, NoFile \/ OpenFile \/ WriteEntry \/ WriteFails \/ CloseFile
  PROVE  Written' /\ trace' = trace
<1>1. trace' = trace
  BY DEF NoFile, OpenFile, WriteEntry, WriteFails, CloseFile, reader
<1>2. file.entries \in Seq(Entry) /\ trace \in Seq(Range16)
  BY DEF TypeOK
<1>3. /\ Len(file.entries) \in Nat /\ Len(trace) \in Nat
      /\ DOMAIN file.entries = 1 .. Len(file.entries)
  BY <1>2, LenProperties
<1>4. CASE NoFile \/ WriteFails \/ CloseFile
  BY <1>1, <1>4 DEF NoFile, WriteFails, CloseFile, Written
<1>5. CASE OpenFile
  <2>1. file' = [stale |-> FALSE, entries |-> << >>]
    BY <1>5 DEF OpenFile
  <2>2. QED
    BY <1>1, <1>3, <2>1 DEF Written
<1>6. CASE WriteEntry
  <2> DEFINE k == Len(file.entries) + 1
  <2> DEFINE e == EntryOf(trace[k])
  <2>1. file' = [file EXCEPT !.entries = Append(file.entries, e)] /\ k <= Len(trace)
    BY <1>3, <1>6 DEF WriteEntry
  <2>2. file'.entries = Append(file.entries, e) /\ file'.stale = file.stale
    BY <2>1 DEF TypeOK
  <2>3. file'.entries \in Seq(Entry)
    BY WritingType DEF TypeOK
  <2> HIDE DEF e
  <2>4. /\ Len(file'.entries) = k /\ DOMAIN file'.entries = 1 .. k
        /\ \A j \in 1 .. Len(file.entries) : file'.entries[j] = file.entries[j]
        /\ file'.entries[k] = e
    BY <1>2, <1>3, <2>2, <2>3, LenProperties
  <2>5. ASSUME ~file.stale, NEW j \in 1 .. k PROVE file'.entries[j] = EntryOf(trace[j])
    <3>1. j \in 1 .. Len(file.entries) \/ j = k
      BY <1>3
    <3>2. QED
      BY <1>3, <2>4, <2>5, <3>1 DEF Written, e
  <2>6. QED
    BY <1>1, <2>1, <2>2, <2>4, <2>5 DEF Written
<1>7. QED
  BY <1>1, <1>4, <1>5, <1>6

\* Writing makes no entry.
LEMMA WritingLogged ==
  ASSUME LoggedInv, NoFile \/ OpenFile \/ WriteEntry \/ WriteFails \/ CloseFile
  PROVE  LoggedInv'
<1>1. /\ log' = log /\ pos' = pos /\ inputBuffer' = inputBuffer /\ trace' = trace
      /\ nextExecuted' = nextExecuted /\ pc' \in {"write", "written", "failed"}
  BY DEF NoFile, OpenFile, WriteEntry, WriteFails, CloseFile, reader
<1>2. TypeOK /\ TypeOK' /\ Written'
  BY WritingType, WritingWritten DEF LoggedInv
<1>3. Logged' = Logged
  BY <1>1, <1>2, LoggedFacts
<1>4. Buffered' /\ TraceLogged'
  BY <1>1, <1>3 DEF LoggedInv, Buffered, TraceLogged, Within
<1>5. QED
  BY <1>1, <1>2, <1>3, <1>4 DEF LoggedInv

SoundLogged == Ascending /\ StraightLine(log) => LoggedInv

\* Every step keeps the invariant for ascending, straight lines.
LEMMA NextLogged == SoundLogged /\ [Next]_vars => SoundLogged'
<1> SUFFICES ASSUME SoundLogged, [Next]_vars, Ascending, StraightLine(log)' PROVE LoggedInv'
  BY DEF SoundLogged
<1>1. log' = log
  BY DEF Next, vars, SkipHeader, FindFirst, ReadFirst, ReadInstruction, EndBlock,
         NoFile, OpenFile, WriteEntry, WriteFails, CloseFile, reader
<1>2. LoggedInv /\ StraightLine(log)
  BY <1>1 DEF SoundLogged
<1>3. CASE UNCHANGED vars
  BY <1>2, <1>3 DEF vars, LoggedInv, TypeOK, Buffered, TraceLogged, Within, Written,
                    Spanned, Behind, Logged
<1>4. CASE Next
  BY <1>2, <1>4, HeaderLogged, ReadFirstLogged, ReadInstructionLogged, EndBlockLogged,
     WritingLogged DEF Next
<1>5. QED
  BY <1>3, <1>4

\* Nothing is invented when the invariant holds.
LEMMA LoggedImplies == LoggedInv => NothingInvented
<1> SUFFICES ASSUME LoggedInv, ~file.stale, NEW a \in Seen PROVE a \in Logged
  BY DEF NothingInvented
<1>1. PICK k \in DOMAIN file.entries : a \in Covers(file.entries[k])
  BY DEF Seen
<1>2. k \in DOMAIN trace /\ file.entries[k] = EntryOf(trace[k])
  <2>1. file.entries \in Seq(Entry) /\ trace \in Seq(Range16)
    BY DEF LoggedInv, TypeOK
  <2>2. /\ Len(file.entries) \in Nat /\ DOMAIN file.entries = 1 .. Len(file.entries)
        /\ Len(trace) \in Nat /\ DOMAIN trace = 1 .. Len(trace)
    BY <2>1, LenProperties
  <2>3. QED
    BY <1>1, <2>2 DEF LoggedInv, Written
<1>3. QED
  BY <1>1, <1>2 DEF LoggedInv, TraceLogged, Within, Covers, EntryOf

(***************************************************************************)
(* NothingInvented holds for every log of straight-line code, whatever     *)
(* line it is cut off at, in an ascending disassembly: a reader of the     *)
(* trace file is told of no instruction that the emulator did not log,     *)
(* though a stale line, an unknown address or a length cut to 16 bits may  *)
(* go into it (TraceReaderLogQEMU.cc 121-168, TraceWriterQEMU.cc 109-142). *)
(***************************************************************************)
THEOREM NoInvention == Spec /\ Ascending /\ StraightLine(log) => []NothingInvented
<1>1. Init => SoundLogged
  BY InitLogged DEF SoundLogged
<1>2. Ascending /\ StraightLine(log) /\ [Next]_vars => (Ascending /\ StraightLine(log))'
  BY DEF Next, vars, SkipHeader, FindFirst, ReadFirst, ReadInstruction, EndBlock,
         NoFile, OpenFile, WriteEntry, WriteFails, CloseFile, reader
<1>3. Ascending /\ StraightLine(log) /\ SoundLogged => NothingInvented
  BY LoggedImplies DEF SoundLogged
<1>4. QED
  BY <1>1, <1>2, <1>3, NextLogged, PTL DEF Spec
-----------------------------------------------------------------------------
(***************************************************************************)
(* CoverageExact and DirectionsExact.  For a faithful log that was written *)
(* to its end, the trace holds at any time exactly the ranges of the       *)
(* blocks in front of the one being read (RangeOf, by the whole log), and  *)
(* first and last are the first instruction of that block and the one read *)
(* last.                                                                   *)
(***************************************************************************)
Insn(l) == [address |-> l.address, branch |-> l.branch]
Why(i) ==
  IF ~ log[LastOf(i)].branch THEN "other"
  ELSE IF Later(i) # {} /\ log[Min(Later(i)) + 1].address = After(i) THEN "notTaken" ELSE "taken"
RangeOf(i) ==
  [lowAddress |-> log[i + 1].address, length |-> (After(i) - log[i + 1].address) % HalfWord,
   exitReason |-> Why(i)]
InTrace        == {trace[k] : k \in DOMAIN trace}
KnownBefore(i) == {j \in Known : j < i}

ReadingBlock(i) ==
  /\ first = Insn(log[i + 1])
  /\ InTrace = {RangeOf(j) : j \in KnownBefore(i)}
  /\ pc = "block" => pos \in i + 1 .. LastOf(i) /\ last = Insn(log[pos])
  /\ pc = "end" => pos = LastOf(i) + 1 /\ last = Insn(log[LastOf(i)])

ToFirst ==
  /\ pc \in {"header", "find", "first"} => trace = << >>
  /\ pc = "header" => pos = 0
  /\ pc = "find" => /\ pos \in 1 .. Len(log) /\ log[pos].kind = "rule"
                    /\ \A j \in 1 .. pos - 1 : log[j].kind # "rule"
  /\ pc = "first" => /\ pos \in 1 .. Len(log) /\ log[pos].kind = "in"
                     /\ \E j \in 1 .. pos : log[j].kind = "rule"
                     /\ \A i \in Blocks : pos <= i

ExactInv ==
  /\ TypeOK /\ Written /\ ToFirst
  /\ pc \in {"block", "end"} => \E i \in Blocks : ReadingBlock(i)
  /\ pc \in {"open", "write", "written", "failed"} => InTrace = {RangeOf(j) : j \in Known}
  /\ pc \in {"write", "written"} => ~file.stale
  /\ pc = "written" => Len(file.entries) = Len(trace)

\* The length of the log and the type of its lines.
LEMMA LogFacts ==
  ASSUME TypeOK
  PROVE  /\ Len(log) \in Nat /\ DOMAIN log = 1 .. Len(log)
         /\ \A i \in 1 .. Len(log) : log[i] \in LineType
BY LenProperties, ElementOfSeq DEF TypeOK

\* In a whole log a block ends at a line that is neither an instruction nor
\* the start of a block.
LEMMA BlockFacts ==
  ASSUME TypeOK, Whole, Lines(log), NEW i \in Blocks
  PROVE  /\ i \in 1 .. Len(log) - 1 /\ LastOf(i) \in i + 1 .. Len(log) - 1
         /\ \A j \in i + 1 .. LastOf(i) : Parsed(log[j])
         /\ ~Parsed(log[LastOf(i) + 1]) /\ log[LastOf(i) + 1].kind # "in"
         /\ log[i].kind = "in" /\ \E j \in 1 .. i : log[j].kind = "rule"
<1>1. /\ i \in 1 .. Len(log) - 1 /\ log[i].kind = "in" /\ Parsed(log[i + 1])
      /\ \E j \in 1 .. i : log[j].kind = "rule"
  BY DEF Blocks
<1>2. Len(log) \in Nat
  BY LogFacts
<1> DEFINE T == {k \in i + 1 .. Len(log) : \A j \in i + 1 .. k : Parsed(log[j])}
<1> DEFINE n == LastOf(i)
<1>3. n \in T /\ \A y \in T : n >= y
  <2>1. i + 1 \in T
    BY <1>1, <1>2
  <2>2. T \subseteq Int /\ T # {} /\ Len(log) \in Int /\ \A x \in T : x <= Len(log)
    BY <1>1, <1>2, <2>1
  <2>3. n = Max(T)
    BY DEF LastOf
  <2> HIDE DEF T, n
  <2>4. Max(T) \in T /\ \A y \in T : Max(T) >= y
    BY ONLY <2>2, MaxFacts
  <2>5. QED
    BY <2>3, <2>4
<1>4. n \in i + 1 .. Len(log) /\ \A j \in i + 1 .. n : Parsed(log[j])
  BY <1>3
<1>5. n # Len(log)
  BY <1>2, <1>4 DEF Whole, Parsed
<1>6. n \in i + 1 .. Len(log) - 1 /\ n \in 1 .. Len(log) - 1
  BY <1>1, <1>2, <1>4, <1>5
<1>7. ~Parsed(log[n + 1])
  <2>1. SUFFICES ASSUME Parsed(log[n + 1]) PROVE FALSE
    OBVIOUS
  <2>2. n + 1 \in i + 1 .. Len(log)
    BY <1>1, <1>2, <1>6
  <2>3. \A j \in i + 1 .. n + 1 : j \in i + 1 .. n \/ j = n + 1
    BY <1>1, <1>6
  <2>4. n + 1 \in T
    BY <1>4, <2>1, <2>2, <2>3
  <2>5. n >= n + 1 /\ n \in Int
    BY <1>1, <1>3, <1>6, <2>4
  <2> HIDE DEF n
  <2>6. QED
    BY <2>5
<1>8. log[n + 1].kind # "in"
  <2>1. Parsed(log[n])
    BY <1>4, <1>6
  <2>2. QED
    BY <1>6, <2>1 DEF Lines
<1> HIDE DEF n, T
<1>9. QED
  BY <1>1, <1>4, <1>6, <1>7, <1>8 DEF n

\* The line behind an "IN: " of a whole log is an instruction.
LEMMA InFacts ==
  ASSUME TypeOK, Whole, StraightLine(log), Lines(log), NEW i \in 1 .. Len(log), log[i].kind = "in"
  PROVE  i \in 1 .. Len(log) - 1 /\ Parsed(log[i + 1])
<1>1. Len(log) \in Nat
  BY LogFacts
<1>2. i \in 1 .. Len(log) - 1 /\ i + 1 \in 1 .. Len(log)
  BY <1>1 DEF Whole
<1>3. Shown(log[i + 1])
  BY <1>2 DEF StraightLine
<1>4. log[i + 1].kind # "bare"
  <2>1. CASE i + 1 = Len(log)
    BY <2>1 DEF Whole
  <2>2. CASE i + 1 # Len(log)
    <3>1. i + 1 \in 1 .. Len(log) - 1
      BY <1>1, <1>2, <2>2
    <3>2. QED
      BY <3>1 DEF Lines
  <2>3. QED
    BY <2>1, <2>2
<1>5. QED
  BY <1>2, <1>3, <1>4 DEF Shown, Parsed

\* A line that parses is the instruction; one that shows nothing changes none.
LEMMA ScannedExact ==
  ASSUME NEW l \in LineType, NEW b \in Instruction
  PROVE  /\ Parsed(l) => Scanned(l, b) = Insn(l)
         /\ ~Shown(l) => Scanned(l, b) = b
BY DEF Scanned, Parsed, Shown, Insn, LineType, Instruction

(***************************************************************************)
(* The addresses of a run of instructions are those of the disassembly     *)
(* from the first to the last of them.  The smallest end for which this    *)
(* fails would have a smaller one in front of it.                          *)
(***************************************************************************)
RunExact(i, j) ==
  log[j].address \in Addresses =>
    /\ log[i].address <= log[j].address
    /\ {log[k].address : k \in i .. j} = {a \in Addresses : log[i].address <= a /\ a <= log[j].address}

\* On a straight line a run of instructions covers exactly its own bytes.
LEMMA StraightRun ==
  ASSUME TypeOK, StraightLine(log), NEW i \in 1 .. Len(log), NEW n \in i .. Len(log),
         \A k \in i .. n : Parsed(log[k])
  PROVE  RunExact(i, n)
<1>1. Len(log) \in Nat /\ \A k \in 1 .. Len(log) : log[k].address \in Nat
  BY LogFacts DEF LineType
<1> DEFINE T == {j \in i .. n : ~RunExact(i, j)}
<1>2. SUFFICES ASSUME T # {} PROVE FALSE
  BY <1>1
<1>3. PICK j \in T : \A y \in T : j <= y
  <2>1. T \subseteq Nat
    BY <1>1
  <2> HIDE DEF T
  <2>2. QED
    BY <1>2, <2>1, LeastNatural
<1>4. j \in i .. n /\ j \in 1 .. Len(log) /\ ~RunExact(i, j)
  BY <1>1
<1>5. log[j].address \in Addresses /\ log[j].address \in Nat /\ log[i].address \in Nat
  BY <1>1, <1>4 DEF RunExact
<1>6. CASE j = i
  <2>1. {log[k].address : k \in i .. j} = {log[i].address}
    <3>1. i .. j = {i}
      BY <1>1, <1>6
    <3>2. QED
      BY <3>1
  <2>2. {a \in Addresses : log[i].address <= a /\ a <= log[j].address} = {log[i].address}
    BY <1>5, <1>6, AddressType
  <2>3. QED
    BY <1>4, <1>5, <1>6, <2>1, <2>2 DEF RunExact
<1>7. CASE j # i
  <2> DEFINE h == j - 1
  <2>1. h \in i .. n /\ h \in 1 .. Len(log) - 1 /\ h \in i .. Len(log) /\ h + 1 = j /\ h < j
    BY <1>1, <1>4, <1>7
  <2>2. RunExact(i, h)
    BY <1>3, <2>1
  <2>3. Shown(log[h]) /\ Shown(log[j])
    BY <1>4, <2>1 DEF Shown, Parsed
  <2>4. log[h].address \in Addresses /\ Follows(log[h].address, log[j].address)
    BY <1>5, <2>1, <2>3 DEF StraightLine
  <2>5. log[h].address \in Nat /\ log[h].address < log[j].address
    BY <2>4, AddressType DEF Follows
  <2>6. /\ log[i].address <= log[h].address
        /\ {log[k].address : k \in i .. h}
             = {a \in Addresses : log[i].address <= a /\ a <= log[h].address}
    BY <2>2, <2>4 DEF RunExact
  <2>7. i .. j = i .. h \cup {j}
    BY <1>1, <1>4, <2>1
  <2>8. {log[k].address : k \in i .. j} = {log[k].address : k \in i .. h} \cup {log[j].address}
    BY <2>7
  <2>9. {a \in Addresses : log[i].address <= a /\ a <= log[j].address}
          = {a \in Addresses : log[i].address <= a /\ a <= log[h].address} \cup {log[j].address}
    <3>1. ASSUME NEW a \in Addresses
          PROVE  (a <= log[j].address) <=> (a <= log[h].address \/ a = log[j].address)
      <4>1. a <= log[h].address \/ log[j].address <= a
        BY <2>4 DEF Follows
      <4>2. QED
        BY <1>5, <2>5, <4>1, AddressType
    <3>2. log[i].address <= log[j].address
      BY <1>5, <2>5, <2>6
    <3>3. QED
      BY <1>5, <3>1, <3>2
  <2>10. RunExact(i, j)
    <3>1. log[i].address <= log[j].address
      BY <1>5, <2>5, <2>6
    <3>2. QED
      BY <2>6, <2>8, <2>9, <3>1 DEF RunExact
  <2>11. QED
    BY <1>4, <2>10
<1>8. QED
  BY <1>6, <1>7

\* What the range of a block covers, and the branch that ends it.
LEMMA RangeFacts ==
  ASSUME TypeOK, Whole, Faithful(log), NEW i \in Known
  PROVE  /\ Covers(EntryOf(RangeOf(i))) = {log[k].address : k \in i + 1 .. LastOf(i)}
         /\ BranchOf(EntryOf(RangeOf(i))) = log[LastOf(i)].address
<1> DEFINE n == LastOf(i)
<1> DEFINE low == log[i + 1].address
<1> DEFINE high == log[n].address
<1> DEFINE next == After(i)
<1>1. i \in Blocks /\ next # 0 /\ next = GetAddressAfter(high)
  BY DEF Known, After
<1>2. /\ Len(log) \in Nat /\ i \in 1 .. Len(log) - 1 /\ n \in i + 1 .. Len(log) - 1
      /\ \A j \in i + 1 .. n : Parsed(log[j])
  BY <1>1, BlockFacts, LogFacts DEF Faithful
<1>3. high \in Addresses /\ next \in Addresses /\ Follows(high, next)
  BY <1>1, AfterFollows DEF Faithful
<1>4. i + 1 \in 1 .. Len(log) /\ n \in i + 1 .. Len(log) /\ n \in DOMAIN log /\ i + 1 \in DOMAIN log
  BY <1>2, LogFacts
<1>5. low \in Nat /\ high \in Nat /\ next \in Nat /\ high < next
  BY <1>3, <1>4, AddressType, LogFacts DEF LineType, Follows
<1>6. RunExact(i + 1, n)
  <2> HIDE DEF n
  <2>1. QED
    BY <1>2, <1>4, StraightRun DEF Faithful
<1>7. low <= high /\ {log[k].address : k \in i + 1 .. n} = {a \in Addresses : low <= a /\ a <= high}
  BY <1>3, <1>6 DEF RunExact
<1>8. next - low < HalfWord
  <2>1. i + 1 <= n
    BY <1>2
  <2>2. QED
    BY <1>2, <1>3, <1>4, <2>1 DEF Faithful, Short
<1> DEFINE e == EntryOf(RangeOf(i))
<1>9. e.pc = low /\ e.size = (next - low) % HalfWord
  BY DEF EntryOf, RangeOf
<1> HIDE DEF e, low, high, next, n
<1>10. e.pc + e.size = next
  <2>1. next - low \in Nat /\ HalfWord \in Nat \ {0}
    BY <1>5, <1>7, ConstantsAssumption
  <2>2. (next - low) % HalfWord = next - low
    BY <1>8, <2>1
  <2>3. QED
    BY <1>5, <1>9, <2>2
<1>11. ASSUME NEW a \in Addresses PROVE a < next <=> a <= high
  <2>1. a <= high \/ next <= a
    BY <1>3 DEF Follows
  <2>2. QED
    BY <1>5, <2>1, AddressType
<1>12. Covers(e) = {a \in Addresses : low <= a /\ a <= high}
  BY <1>9, <1>10, <1>11 DEF Covers
<1>13. BranchOf(e) = high
  <2> DEFINE T == {a \in Addresses : a < e.pc + e.size}
  <2>1. T = {a \in Addresses : a <= high}
    BY <1>10, <1>11
  <2>5. T \subseteq Int /\ high \in T /\ high \in Int /\ \A x \in T : x <= high
    <3>1. \A a \in Addresses : a \in Int
      BY AddressType
    <3>2. high \in Int /\ high <= high
      BY <1>5
    <3> HIDE DEF T
    <3>3. T \subseteq Int /\ \A x \in T : x <= high
      BY <2>1, <3>1
    <3>4. high \in T
      BY <1>3, <2>1, <3>2
    <3>5. QED
      BY <3>2, <3>3, <3>4
  <2>2. BranchOf(e) = Max(T)
    BY DEF BranchOf
  <2> HIDE DEF T
  <2>3. Max(T) \in T /\ \A y \in T : Max(T) >= y
    BY ONLY <2>5, MaxFacts
  <2>4. Max(T) <= high /\ Max(T) >= high /\ Max(T) \in Int
    BY ONLY <2>3, <2>5
  <2>6. QED
    BY ONLY <2>2, <2>4, <2>5
<1>14. QED
  BY <1>7, <1>12, <1>13 DEF e, high, n
-----------------------------------------------------------------------------
\* What the whole log says does not change while it is read.
LEMMA LogSame ==
  ASSUME log' = log
  PROVE  /\ Blocks' = Blocks /\ Known' = Known /\ Whole' = Whole
         /\ \A i : /\ LastOf(i)' = LastOf(i) /\ Later(i)' = Later(i) /\ RangeOf(i)' = RangeOf(i)
                   /\ KnownBefore(i)' = KnownBefore(i)
BY DEF Blocks, Known, Whole, LastOf, Later, RangeOf, KnownBefore, After, Why

\* The ranges in the trace once one is appended.
LEMMA InTraceFacts ==
  ASSUME TypeOK, TypeOK', NEW r
  PROVE  /\ trace = << >> => InTrace = {}
         /\ trace' = trace => InTrace' = InTrace
         /\ trace' = Append(trace, r) => InTrace' = InTrace \cup {r}
<1>1. trace \in Seq(Range16) /\ trace' \in Seq(Range16)
  BY DEF TypeOK
<1>2. CASE trace' = Append(trace, r)
  <2>1. /\ DOMAIN trace' = 1 .. Len(trace) + 1 /\ DOMAIN trace = 1 .. Len(trace)
        /\ Len(trace) \in Nat /\ trace'[Len(trace) + 1] = r
        /\ \A j \in 1 .. Len(trace) : trace'[j] = trace[j]
    BY <1>1, <1>2, LenProperties
  <2>2. DOMAIN trace' = DOMAIN trace \cup {Len(trace) + 1}
    BY <2>1
  <2>3. InTrace' = InTrace \cup {r}
    BY <2>1, <2>2 DEF InTrace
  <2>4. QED
    BY <1>2, <2>3 DEF InTrace
<1>3. CASE trace' # Append(trace, r)
  BY <1>3 DEF InTrace
<1>4. QED
  BY <1>2, <1>3

\* The exact invariant holds before the log is read.
LEMMA InitExact == Init => ExactInv
<1> SUFFICES ASSUME Init PROVE ExactInv
  OBVIOUS
<1>1. TypeOK
  BY InitType
<1>2. pc = "header" /\ trace = << >> /\ pos = 0 /\ Written
  BY DEF Init, Written
<1>3. QED
  BY <1>1, <1>2 DEF ExactInv, ToFirst

\* Skipping the header keeps it,
LEMMA SkipHeaderExact ==
  ASSUME ExactInv, SkipHeader
  PROVE  ExactInv'
<1>1. /\ log' = log /\ trace' = trace /\ file' = file /\ pc = "header"
      /\ pc' = (IF Ahead("rule") = {} THEN "open" ELSE "find")
      /\ pos' = IF Ahead("rule") = {} THEN Len(log) ELSE Min(Ahead("rule"))
  BY DEF SkipHeader, ReadUntilFound
<1>2. TypeOK /\ TypeOK' /\ trace = << >> /\ pos = 0 /\ Written'
  BY <1>1, ReadingType DEF ExactInv, ToFirst, Written
<1>3. Len(log) \in Nat
  BY <1>2, LogFacts
<1>4. CASE Ahead("rule") = {}
  <2>1. \A i \in 1 .. Len(log) : log[i].kind # "rule"
    BY <1>2, <1>3, <1>4 DEF Ahead
  <2>2. Blocks = {}
    BY <1>3, <2>1 DEF Blocks
  <2>3. Known' = {} /\ InTrace' = {}
    BY <1>1, <1>2, <2>2, LogSame, InTraceFacts DEF Known
  <2>4. InTrace' = {RangeOf(j) : j \in Known}'
    BY <2>3
  <2>5. QED
    BY <1>1, <1>2, <1>4, <2>4 DEF ExactInv, ToFirst
<1>5. CASE Ahead("rule") # {}
  <2>1. /\ pos' \in 1 .. Len(log) /\ log[pos'].kind = "rule"
        /\ \A i \in 1 .. Len(log) : log[i].kind = "rule" => pos' <= i
    BY <1>1, <1>2, <1>3, <1>5, AheadFacts
  <2>2. \A j \in 1 .. pos' - 1 : log[j].kind # "rule"
    BY <1>3, <2>1
  <2>3. QED
    BY <1>1, <1>2, <1>5, <2>1, <2>2 DEF ExactInv, ToFirst
<1>6. QED
  BY <1>4, <1>5

\* ... looking for the first instruction does,
LEMMA FindFirstExact ==
  ASSUME ExactInv, FindFirst
  PROVE  ExactInv'
<1>1. /\ log' = log /\ trace' = trace /\ file' = file /\ pc = "find"
      /\ pc' = (IF Ahead("in") = {} THEN "open" ELSE "first")
      /\ pos' = IF Ahead("in") = {} THEN Len(log) ELSE Min(Ahead("in"))
  BY DEF FindFirst, ReadUntilFound
<1>2. /\ TypeOK /\ TypeOK' /\ trace = << >> /\ Written'
      /\ pos \in 1 .. Len(log) /\ log[pos].kind = "rule"
      /\ \A j \in 1 .. pos - 1 : log[j].kind # "rule"
  BY <1>1, ReadingType DEF ExactInv, ToFirst, Written
<1>3. Len(log) \in Nat
  BY <1>2, LogFacts
<1>4. \A i \in Blocks : i \in Ahead("in")
  <2>1. SUFFICES ASSUME NEW i \in Blocks PROVE i \in Ahead("in")
    OBVIOUS
  <2>2. i \in 1 .. Len(log) - 1 /\ log[i].kind = "in"
    BY DEF Blocks
  <2>3. PICK j \in 1 .. i : log[j].kind = "rule"
    BY DEF Blocks
  <2>4. ~ j \in 1 .. pos - 1
    BY <1>2, <2>3
  <2>5. i # pos
    BY <1>2, <2>2
  <2>6. i \in pos + 1 .. Len(log)
    BY <1>2, <1>3, <2>2, <2>3, <2>4, <2>5
  <2>7. QED
    BY <2>2, <2>6 DEF Ahead
<1>5. CASE Ahead("in") = {}
  <2>1. Blocks = {}
    BY <1>4, <1>5
  <2>2. Known' = {} /\ InTrace' = {}
    BY <1>1, <1>2, <2>1, LogSame, InTraceFacts DEF Known
  <2>3. InTrace' = {RangeOf(j) : j \in Known}'
    BY <2>2
  <2>4. QED
    BY <1>1, <1>2, <1>5, <2>3 DEF ExactInv, ToFirst
<1>6. CASE Ahead("in") # {}
  <2>1. /\ pos' \in pos + 1 .. Len(log) /\ log[pos'].kind = "in"
        /\ \A i \in pos + 1 .. Len(log) : log[i].kind = "in" => pos' <= i
    BY <1>1, <1>2, <1>6, AheadFacts
  <2>2. pos' \in 1 .. Len(log) /\ \E j \in 1 .. pos' : log[j].kind = "rule"
    <3>1. pos \in 1 .. pos'
      BY <1>2, <1>3, <2>1
    <3>2. QED
      BY <1>2, <1>3, <2>1, <3>1
  <2>3. \A i \in Blocks : pos' <= i
    BY <1>4, <2>1 DEF Ahead
  <2>4. QED
    BY <1>1, <1>2, <1>6, <2>1, <2>2, <2>3, LogSame DEF ExactInv, ToFirst
<1>7. QED
  BY <1>5, <1>6

\* ... reading the first of a block does,
LEMMA ReadFirstExact ==
  ASSUME ExactInv, Whole, Faithful(log), ReadFirst
  PROVE  ExactInv'
<1>1. /\ log' = log /\ trace' = trace /\ file' = file /\ pc = "first"
      /\ pos' = (IF AtEnd THEN pos ELSE pos + 1)
      /\ first' = Scanned(NextLine, first) /\ last' = first'
      /\ pc' = IF Parsed(NextLine) THEN "block" ELSE "open"
  BY DEF ReadFirst, Fgets
<1>2. /\ TypeOK /\ TypeOK' /\ trace = << >> /\ Written' /\ first \in Instruction
      /\ pos \in 1 .. Len(log) /\ log[pos].kind = "in"
      /\ \E j \in 1 .. pos : log[j].kind = "rule"
      /\ \A i \in Blocks : pos <= i
  BY <1>1, ReadingType DEF ExactInv, ToFirst, Written, TypeOK
<1>3. Len(log) \in Nat
  BY <1>2, LogFacts
<1>4. pos \in 1 .. Len(log) - 1 /\ Parsed(log[pos + 1])
  BY <1>2, InFacts DEF Faithful
<1>5. PICK n \in Blocks : n = pos
  BY <1>2, <1>4 DEF Blocks
<1>6. ~AtEnd /\ NextLine = log[n + 1] /\ n + 1 \in 1 .. Len(log)
  BY <1>3, <1>4, <1>5 DEF AtEnd, NextLine
<1>7. first' = Insn(log[n + 1]) /\ last' = first' /\ pc' = "block" /\ pos' = n + 1
  BY <1>1, <1>2, <1>4, <1>5, <1>6, LogFacts, ScannedExact
<1>8. KnownBefore(n) = {}
  <2>1. \A i \in Known : i \in Blocks
    BY DEF Known
  <2>2. \A i \in Blocks : i \in Nat
    BY DEF Blocks
  <2>3. ASSUME NEW j \in KnownBefore(n) PROVE FALSE
    <3>1. j \in Blocks /\ j < n /\ j \in Nat /\ n \in Nat
      BY <2>1, <2>2 DEF KnownBefore
    <3>2. n <= j
      BY <1>2, <1>5, <3>1
    <3>3. QED
      BY <3>1, <3>2
  <2>4. QED
    BY <2>3
<1>9. n + 1 \in n + 1 .. LastOf(n)
  <2>1. LastOf(n) \in n + 1 .. Len(log) - 1 /\ n \in 1 .. Len(log) - 1
    BY <1>2, BlockFacts DEF Faithful
  <2>2. QED
    BY <1>3, <2>1
<1>10. ReadingBlock(n)'
  <2>1. InTrace' = {} /\ KnownBefore(n)' = {} /\ LastOf(n)' = LastOf(n)
    BY <1>1, <1>2, <1>8, InTraceFacts, LogSame
  <2>2. QED
    BY <1>1, <1>7, <1>9, <2>1 DEF ReadingBlock
<1>11. n \in Blocks'
  BY <1>1, LogSame
<1>12. QED
  BY <1>1, <1>2, <1>7, <1>10, <1>11 DEF ExactInv, ToFirst

\* ... reading one more does,
LEMMA ReadInstructionExact ==
  ASSUME ExactInv, Whole, Faithful(log), ReadInstruction
  PROVE  ExactInv'
<1>1. /\ log' = log /\ trace' = trace /\ file' = file /\ pc = "block"
      /\ pos' = (IF AtEnd THEN pos ELSE pos + 1)
      /\ first' = first /\ last' = Scanned(NextLine, last)
      /\ pc' = IF Parsed(NextLine) THEN "block" ELSE "end"
  BY DEF ReadInstruction, Fgets
<1>2. TypeOK /\ TypeOK' /\ Written' /\ last \in Instruction
  BY <1>1, ReadingType DEF ExactInv, TypeOK, Written
<1>3. PICK i \in Blocks : ReadingBlock(i)
  BY <1>1 DEF ExactInv
<1> DEFINE n == LastOf(i)
<1>4. /\ first = Insn(log[i + 1]) /\ InTrace = {RangeOf(j) : j \in KnownBefore(i)}
      /\ pos \in i + 1 .. n /\ last = Insn(log[pos])
  BY <1>1, <1>3 DEF ReadingBlock
<1>5. /\ i \in 1 .. Len(log) - 1 /\ n \in i + 1 .. Len(log) - 1
      /\ \A j \in i + 1 .. n : Parsed(log[j])
      /\ ~Parsed(log[n + 1])
  BY <1>2, BlockFacts DEF Faithful
<1>6. Len(log) \in Nat
  BY <1>2, LogFacts
<1>7. i \in Blocks' /\ n = LastOf(i)' /\ InTrace' = {RangeOf(j) : j \in KnownBefore(i)}'
  BY <1>1, <1>2, <1>4, LogSame, InTraceFacts
<1> HIDE DEF n
<1>8. ~AtEnd /\ NextLine = log[pos + 1] /\ pos' = pos + 1 /\ pos + 1 \in 1 .. Len(log)
  BY <1>1, <1>4, <1>5, <1>6 DEF AtEnd, NextLine
<1>9. CASE pos # n
  <2>1. pos + 1 \in i + 1 .. n /\ Parsed(NextLine)
    BY <1>4, <1>5, <1>6, <1>8, <1>9
  <2>2. last' = Insn(log[pos']) /\ pc' = "block"
    BY <1>1, <1>2, <1>8, <2>1, LogFacts, ScannedExact
  <2>3. ReadingBlock(i)'
    BY <1>1, <1>4, <1>7, <1>8, <2>1, <2>2 DEF ReadingBlock
  <2>4. QED
    BY <1>1, <1>2, <1>7, <2>2, <2>3 DEF ExactInv, ToFirst
<1>10. CASE pos = n
  <2>1. ~Parsed(NextLine)
    BY <1>5, <1>8, <1>10
  <2>2. ~Shown(NextLine)
    <3>1. NextLine.kind # "bare"
      <4>1. CASE pos + 1 = Len(log)
        BY <1>8, <4>1 DEF Whole
      <4>2. CASE pos + 1 # Len(log)
        <5>1. pos + 1 \in 1 .. Len(log) - 1
          BY <1>6, <1>8, <4>2
        <5>2. QED
          BY <1>8, <5>1 DEF Faithful, Lines
      <4>3. QED
        BY <4>1, <4>2
    <3>2. QED
      BY <2>1, <3>1 DEF Shown, Parsed
  <2>3. last' = last /\ pc' = "end"
    BY <1>1, <1>2, <1>8, <2>1, <2>2, LogFacts, ScannedExact
  <2>4. ReadingBlock(i)'
    BY <1>1, <1>4, <1>7, <1>8, <1>10, <2>3 DEF ReadingBlock
  <2>5. QED
    BY <1>1, <1>2, <1>7, <2>3, <2>4 DEF ExactInv, ToFirst
<1>11. QED
  BY <1>9, <1>10

\* The next block of a whole log starts at the next "IN: ".
LEMMA LaterFacts ==
  ASSUME TypeOK, Whole, Faithful(log), NEW i \in Blocks, pos = LastOf(i) + 1
  PROVE  /\ Ahead("in") = {} => Later(i) = {}
         /\ Ahead("in") # {} => /\ Later(i) # {} /\ Min(Later(i)) = Min(Ahead("in"))
                                /\ Min(Ahead("in")) \in Blocks
                                /\ i < Min(Ahead("in"))
                                /\ \A j \in Blocks : j < Min(Ahead("in")) => j <= i
<1>1. /\ i \in 1 .. Len(log) - 1 /\ LastOf(i) \in i + 1 .. Len(log) - 1
      /\ \A j \in i + 1 .. LastOf(i) : Parsed(log[j])
      /\ log[LastOf(i) + 1].kind # "in" /\ \E j \in 1 .. i : log[j].kind = "rule"
  BY BlockFacts DEF Faithful
<1>2. Len(log) \in Nat
  BY LogFacts
<1>3. ASSUME NEW j \in Blocks, i < j PROVE j \in Ahead("in")
  <2>1. j \in 1 .. Len(log) - 1 /\ log[j].kind = "in"
    BY DEF Blocks
  <2>2. ~ j \in i + 1 .. LastOf(i)
    BY <1>1, <2>1 DEF Parsed
  <2>3. j # LastOf(i) + 1
    BY <1>1, <2>1
  <2>4. j \in pos + 1 .. Len(log)
    BY <1>1, <1>2, <1>3, <2>1, <2>2, <2>3
  <2>5. QED
    BY <2>1, <2>4 DEF Ahead
<1>4. CASE Ahead("in") = {}
  BY <1>3, <1>4 DEF Later
<1>5. CASE Ahead("in") # {}
  <2> DEFINE n == Min(Ahead("in"))
  <2>1. /\ n \in pos + 1 .. Len(log) /\ log[n].kind = "in"
        /\ \A k \in pos + 1 .. Len(log) : log[k].kind = "in" => n <= k
    BY <1>5, AheadFacts
  <2> HIDE DEF n
  <2>2. i < n /\ n \in 1 .. Len(log)
    BY <1>1, <1>2, <2>1
  <2>3. n \in 1 .. Len(log) - 1 /\ Parsed(log[n + 1])
    BY <2>1, <2>2, InFacts DEF Faithful
  <2>4. n \in Blocks
    <3>1. PICK j \in 1 .. i : log[j].kind = "rule"
      BY <1>1
    <3>2. j \in 1 .. n
      BY <1>1, <2>2, <3>1
    <3>3. QED
      BY <2>1, <2>3, <3>1, <3>2 DEF Blocks
  <2>5. \A j \in Blocks : i < j => n <= j
    BY <1>3, <2>1 DEF Ahead
  <2>6. \A j \in Blocks : j \in Nat
    BY DEF Blocks
  <2>7. ASSUME NEW j \in Blocks, j < n PROVE j <= i
    <3>1. j \in Nat /\ n \in Nat /\ i \in Nat
      BY <1>1, <2>2, <2>6
    <3>2. i < j => n <= j
      BY <2>5
    <3>3. QED
      BY <2>7, <3>1, <3>2
  <2>8. n \in Later(i) /\ \A j \in Later(i) : n <= j
    BY <2>2, <2>4, <2>5 DEF Later
  <2>9. Min(Later(i)) = n
    <3>1. \A j \in Later(i) : j \in Int
      BY <2>6 DEF Later
    <3>2. n \in Int
      BY <2>2
    <3>3. Later(i) \subseteq Int /\ Later(i) # {}
      BY <2>8, <3>1
    <3>4. Min(Later(i)) \in Later(i) /\ \A y \in Later(i) : Min(Later(i)) <= y
      BY <2>8, <3>2, <3>3, MinFacts
    <3>5. Min(Later(i)) \in Int /\ n <= Min(Later(i)) /\ Min(Later(i)) <= n
      BY <2>8, <3>1, <3>4
    <3>6. QED
      BY ONLY <3>2, <3>5
  <2>10. QED
    BY <1>5, <2>2, <2>4, <2>7, <2>8, <2>9 DEF n
<1>6. QED
  BY <1>4, <1>5

\* ... ending the block does,
LEMMA EndBlockExact ==
  ASSUME ExactInv, Whole, Faithful(log), EndBlock
  PROVE  ExactInv'
<1> DEFINE logical == GetAddressAfter(last.address)
<1> DEFINE n == Min(Ahead("in"))
<1> DEFINE ended == Ahead("in") = {}
<1>1. /\ pos' = (IF ended \/ n = Len(log) THEN Len(log) ELSE n + 1)
      /\ nextExecuted' = (IF ended THEN last ELSE Scanned(LookAhead(n), nextExecuted))
      /\ trace' = (IF logical = 0 THEN trace
                   ELSE Add(first.address, logical, ExitReason(nextExecuted', logical)))
      /\ first' = nextExecuted' /\ last' = nextExecuted' /\ pc = "end"
      /\ pc' = (IF ended THEN "open" ELSE "block") /\ log' = log /\ file' = file
  BY DEF EndBlock
<1>2. TypeOK /\ TypeOK' /\ nextExecuted \in Instruction
  BY EndBlockType DEF ExactInv, TypeOK
<1>3. PICK i \in Blocks : ReadingBlock(i)
  BY <1>1 DEF ExactInv
<1>4. /\ first = Insn(log[i + 1]) /\ InTrace = {RangeOf(j) : j \in KnownBefore(i)}
      /\ pos = LastOf(i) + 1 /\ last = Insn(log[LastOf(i)])
  BY <1>1, <1>3 DEF ReadingBlock
<1>5. /\ ended => Later(i) = {}
      /\ ~ended => /\ Later(i) # {} /\ Min(Later(i)) = n /\ n \in Blocks /\ i < n
                   /\ \A j \in Blocks : j < n => j <= i
  BY <1>2, <1>4, LaterFacts
<1>6. /\ first.address = log[i + 1].address /\ last.address = log[LastOf(i)].address
      /\ last.branch = log[LastOf(i)].branch /\ logical = After(i)
  BY <1>4 DEF Insn, After
<1>7. /\ Len(log) \in Nat /\ \A j \in Blocks : j \in 1 .. Len(log) - 1
  BY <1>2, LogFacts DEF Blocks
<1>8. ~ended => /\ nextExecuted' = Insn(log[n + 1]) /\ pos' = n + 1 /\ n \in 1 .. Len(log) - 1
  <2>1. SUFFICES ASSUME ~ended
                 PROVE  nextExecuted' = Insn(log[n + 1]) /\ pos' = n + 1 /\ n \in 1 .. Len(log) - 1
    OBVIOUS
  <2>2. n \in 1 .. Len(log) - 1 /\ Parsed(log[n + 1])
    BY <1>5, <2>1 DEF Blocks
  <2>3. n + 1 \in 1 .. Len(log) /\ LookAhead(n) = log[n + 1] /\ n # Len(log)
    BY <1>7, <2>2 DEF LookAhead
  <2>4. log[n + 1] \in LineType
    BY <1>2, <2>3, LogFacts
  <2> HIDE DEF n
  <2>5. QED
    BY <1>1, <1>2, <2>1, <2>2, <2>3, <2>4, ScannedExact
<1>9. logical # 0 => ExitReason(nextExecuted', logical) = Why(i)
  <2>1. SUFFICES ASSUME logical # 0 PROVE ExitReason(nextExecuted', logical) = Why(i)
    OBVIOUS
  <2>2. CASE ended
    <3>1. Follows(last.address, logical) /\ last.address \in Nat /\ logical \in Nat
      BY <1>6, <2>1, AfterFollows, AddressType DEF Faithful
    <3>2. nextExecuted'.address # logical
      BY <1>1, <2>2, <3>1 DEF Follows
    <3>3. QED
      BY <1>5, <1>6, <2>2, <3>2 DEF ExitReason, Why
  <2>3. CASE ~ended
    <3>1. nextExecuted'.address = log[n + 1].address
      BY <1>8, <2>3 DEF Insn
    <3>2. QED
      BY <1>5, <1>6, <2>3, <3>1 DEF ExitReason, Why
  <2>4. QED
    BY <2>2, <2>3
<1>10. IF logical = 0 THEN trace' = trace ELSE trace' = Append(trace, RangeOf(i))
  BY <1>1, <1>6, <1>9 DEF Add, RangeOf
<1> DEFINE Done == KnownBefore(i) \cup (IF After(i) = 0 THEN {} ELSE {i})
<1>11. InTrace' = {RangeOf(j) : j \in Done}
  <2>1. CASE logical = 0
    BY <1>2, <1>4, <1>6, <1>10, <2>1, InTraceFacts
  <2>2. CASE logical # 0
    <3>1. InTrace' = InTrace \cup {RangeOf(i)}
      BY <1>2, <1>10, <2>2, InTraceFacts
    <3>2. QED
      BY <1>4, <1>6, <2>2, <3>1
  <2>3. QED
    BY <2>1, <2>2
<1>12. Written'
  <2>1. trace \in Seq(Range16) /\ trace' \in Seq(Range16) /\ file.entries \in Seq(Entry)
    BY <1>2 DEF TypeOK
  <2>2. trace' = trace \/ trace' = Append(trace, RangeOf(i))
    BY <1>10
  <2>3. Len(trace) <= Len(trace') /\ \A k \in 1 .. Len(trace) : trace'[k] = trace[k]
    BY <2>1, <2>2
  <2>4. /\ Len(file.entries) \in Nat /\ Len(trace) \in Nat /\ Len(trace') \in Nat
        /\ DOMAIN file.entries = 1 .. Len(file.entries)
    BY <2>1, LenProperties
  <2>5. QED
    BY <1>1, <2>3, <2>4 DEF ExactInv, Written
<1>13. CASE ended
  <2>1. Known = Done
    <3>1. ASSUME NEW j \in Known PROVE j \in Done
      <4>1. j \in Blocks /\ After(j) # 0 /\ j \in Nat /\ i \in Nat
        BY <1>7 DEF Known
      <4>2. ~ i < j
        BY <1>5, <1>13, <4>1 DEF Later
      <4>3. j < i \/ j = i
        BY <4>1, <4>2
      <4>4. QED
        BY <4>1, <4>3 DEF KnownBefore
    <3>2. QED
      BY <3>1 DEF KnownBefore, Known
  <2>2. InTrace' = {RangeOf(j) : j \in Known}'
    BY <1>1, <1>11, <2>1, LogSame
  <2>3. pc' = "open"
    BY <1>1, <1>13
  <2>4. QED
    BY <1>2, <1>12, <2>2, <2>3 DEF ExactInv, ToFirst
<1>14. CASE ~ended
  <2>1. PICK b \in Blocks : b = n
    BY <1>5, <1>14
  <2>2. KnownBefore(b) = Done
    <3>1. ASSUME NEW j \in KnownBefore(b) PROVE j \in Done
      <4>1. j \in Known /\ j \in Blocks /\ After(j) # 0 /\ j \in Nat /\ i \in Nat /\ j < b
        BY <1>7 DEF Known, KnownBefore
      <4>2. j <= i
        BY <1>5, <1>14, <2>1, <4>1
      <4>3. j < i \/ j = i
        BY <4>1, <4>2
      <4>4. QED
        BY <4>1, <4>3 DEF KnownBefore
    <3>2. ASSUME NEW j \in Done PROVE j \in KnownBefore(b)
      <4>1. j \in Known /\ j \in Nat /\ i \in Nat /\ b \in Nat
        BY <1>7, <2>1 DEF KnownBefore, Known
      <4>2. j <= i /\ i < b
        BY <1>5, <1>14, <2>1, <4>1 DEF KnownBefore
      <4>3. QED
        BY <4>1, <4>2 DEF KnownBefore
    <3>3. QED
      BY <3>1, <3>2
  <2>3. InTrace' = {RangeOf(j) : j \in KnownBefore(b)}'
    BY <1>1, <1>11, <2>2, LogSame
  <2>4. pc' = "block" /\ first' = Insn(log[b + 1]) /\ last' = Insn(log[b + 1]) /\ pos' = b + 1
    BY <1>1, <1>8, <1>14, <2>1
  <2>5. b + 1 \in b + 1 .. LastOf(b)
    <3>1. LastOf(b) \in b + 1 .. Len(log) - 1 /\ b \in 1 .. Len(log) - 1
      BY <1>2, BlockFacts DEF Faithful
    <3>2. QED
      BY <1>7, <3>1
  <2>6. ReadingBlock(b)'
    BY <1>1, <2>3, <2>4, <2>5, LogSame DEF ReadingBlock
  <2>7. b \in Blocks'
    BY <1>1, LogSame
  <2>8. QED
    BY <1>2, <1>12, <2>4, <2>6, <2>7 DEF ExactInv, ToFirst
<1>15. QED
  BY <1>13, <1>14

\* ... and writing the trace does.
LEMMA WritingExact ==
  ASSUME ExactInv, NoFile \/ OpenFile \/ WriteEntry \/ WriteFails \/ CloseFile
  PROVE  ExactInv'
<1>1. /\ log' = log /\ trace' = trace /\ pc \in {"open", "write"}
      /\ pc' \in {"write", "written", "failed"}
  BY DEF NoFile, OpenFile, WriteEntry, WriteFails, CloseFile, reader
<1>2. TypeOK /\ TypeOK' /\ Written'
  BY WritingType, WritingWritten DEF ExactInv
<1>3. InTrace' = {RangeOf(j) : j \in Known}'
  <2>1. InTrace = {RangeOf(j) : j \in Known}
    BY <1>1 DEF ExactInv
  <2>2. QED
    BY <1>1, <1>2, <2>1, InTraceFacts, LogSame
<1>4. pc' \in {"write", "written"} => ~file'.stale
  <2>1. CASE OpenFile
    BY <2>1 DEF OpenFile
  <2>2. CASE WriteEntry
    BY <1>2, <2>2 DEF WriteEntry, ExactInv, TypeOK
  <2>3. CASE NoFile \/ WriteFails
    BY <2>3 DEF NoFile, WriteFails
  <2>4. CASE CloseFile
    BY <2>4 DEF CloseFile, ExactInv
  <2>5. QED
    BY <2>1, <2>2, <2>3, <2>4
<1>5. pc' = "written" => Len(file'.entries) = Len(trace')
  BY DEF NoFile, OpenFile, WriteEntry, WriteFails, CloseFile, reader
<1>6. QED
  BY <1>1, <1>2, <1>3, <1>4, <1>5 DEF ExactInv, ToFirst

SoundExact == Whole /\ Faithful(log) => ExactInv

\* Every step keeps it for a whole and faithful log.
LEMMA NextExact == SoundExact /\ [Next]_vars => SoundExact'
<1> SUFFICES ASSUME SoundExact, [Next]_vars, Whole', Faithful(log)' PROVE ExactInv'
  BY DEF SoundExact
<1>1. log' = log
  BY DEF Next, vars, SkipHeader, FindFirst, ReadFirst, ReadInstruction, EndBlock,
         NoFile, OpenFile, WriteEntry, WriteFails, CloseFile, reader
<1>2. Whole /\ Faithful(log)
  BY <1>1, LogSame
<1>3. ExactInv
  BY <1>2 DEF SoundExact
<1>4. CASE UNCHANGED vars
  <2>1. TypeOK /\ TypeOK' /\ Written' /\ ToFirst'
    BY <1>3, <1>4, NextType, LogSame DEF ExactInv, Written, ToFirst, vars
  <2>2. InTrace' = InTrace
    BY <1>4 DEF vars, InTrace
  <2>3. ASSUME NEW i \in Blocks, ReadingBlock(i) PROVE ReadingBlock(i)'
    BY <1>1, <1>4, <2>2, <2>3, LogSame DEF ReadingBlock, vars
  <2>4. QED
    BY <1>1, <1>3, <1>4, <2>1, <2>2, <2>3, LogSame DEF ExactInv, vars
<1>5. CASE Next
  BY <1>2, <1>3, <1>5, SkipHeaderExact, FindFirstExact, ReadFirstExact, ReadInstructionExact,
     EndBlockExact, WritingExact DEF Next
<1>6. QED
  BY <1>4, <1>5

\* The file that was written holds one entry for each known block.
LEMMA EntriesExact ==
  ASSUME ExactInv, pc = "written"
  PROVE  {file.entries[k] : k \in DOMAIN file.entries} = {EntryOf(RangeOf(i)) : i \in Known}
<1>1. file.entries \in Seq(Entry) /\ trace \in Seq(Range16) /\ Len(file.entries) = Len(trace)
  BY DEF ExactInv, TypeOK
<1>2. DOMAIN file.entries = DOMAIN trace
  BY <1>1, LenProperties
<1>3. \A k \in DOMAIN trace : file.entries[k] = EntryOf(trace[k])
  BY <1>2 DEF ExactInv, Written
<1>4. {file.entries[k] : k \in DOMAIN file.entries} = {EntryOf(r) : r \in InTrace}
  BY <1>2, <1>3 DEF InTrace
<1>5. InTrace = {RangeOf(i) : i \in Known}
  BY DEF ExactInv
<1>6. QED
  BY <1>4, <1>5

\* When the trace is written, what it covers are the blocks of the log;
LEMMA CoverageFollows ==
  ASSUME ExactInv, Whole, Faithful(log), pc = "written"
  PROVE  Seen = UNION {{log[k].address : k \in i + 1 .. LastOf(i)} : i \in Known}
<1>1. Seen = UNION {Covers(e) : e \in {file.entries[k] : k \in DOMAIN file.entries}}
  BY DEF Seen
<1>2. Seen = UNION {Covers(EntryOf(RangeOf(i))) : i \in Known}
  BY <1>1, EntriesExact
<1>3. \A i \in Known :
        Covers(EntryOf(RangeOf(i))) = {log[k].address : k \in i + 1 .. LastOf(i)}
  BY RangeFacts DEF ExactInv
<1>4. QED
  BY <1>2, <1>3

\* ... and its directions are those the log took, up to the last block.
LEMMA DirectionsFollow ==
  ASSUME ExactInv, Whole, Faithful(log), pc = "written"
  PROVE  /\ Told("notTaken") = Went("notTaken")
         /\ Went("taken") \subseteq Told("taken")
         /\ \A a \in Told("taken") \ Went("taken") : a = log[LastOf(Max(Blocks))].address
<1>1. ASSUME NEW d \in {"taken", "notTaken"}
      PROVE  Told(d) = {log[LastOf(i)].address : i \in {k \in Known : Why(k) = d}}
  <2>1. Told(d) = {BranchOf(e) : e \in {f \in {file.entries[k] : k \in DOMAIN file.entries} : d \in f.op}}
    BY DEF Told
  <2>2. Told(d) = {BranchOf(e) : e \in {f \in {EntryOf(RangeOf(i)) : i \in Known} : d \in f.op}}
    BY <2>1, EntriesExact
  <2>3. \A i \in Known : d \in EntryOf(RangeOf(i)).op <=> Why(i) = d
    BY DEF EntryOf, RangeOf
  <2>4. Told(d) = {BranchOf(EntryOf(RangeOf(i))) : i \in {k \in Known : Why(k) = d}}
    BY <2>2, <2>3
  <2>5. \A i \in Known : BranchOf(EntryOf(RangeOf(i))) = log[LastOf(i)].address
    BY RangeFacts DEF ExactInv
  <2>6. QED
    BY <2>4, <2>5
<1>2. \A d : Went(d) =
        {log[LastOf(i)].address : i \in
           {k \in Known : /\ log[LastOf(k)].branch /\ Later(k) # {}
                          /\ (d = "notTaken") <=> (log[Min(Later(k)) + 1].address = After(k))}}
  BY DEF Went
<1>3. \A k \in Known : Why(k) = "notTaken" <=>
        /\ log[LastOf(k)].branch /\ Later(k) # {}
        /\ log[Min(Later(k)) + 1].address = After(k)
  BY DEF Why
<1>4. Told("notTaken") = Went("notTaken")
  BY <1>1, <1>2, <1>3
<1>5. \A k \in Known :
        (/\ log[LastOf(k)].branch /\ Later(k) # {}
         /\ log[Min(Later(k)) + 1].address # After(k)) => Why(k) = "taken"
  BY DEF Why
<1>6. Went("taken") \subseteq Told("taken")
  BY <1>1, <1>2, <1>5
<1>7. ASSUME NEW a \in Told("taken"), a \notin Went("taken")
      PROVE  a = log[LastOf(Max(Blocks))].address
  <2>1. PICK i \in Known : Why(i) = "taken" /\ a = log[LastOf(i)].address
    BY <1>1
  <2>2. log[LastOf(i)].branch /\ (Later(i) # {} => log[Min(Later(i)) + 1].address # After(i))
    BY <2>1 DEF Why
  <2>3. Later(i) = {}
    BY <1>2, <1>7, <2>1, <2>2
  <2>4. i \in Blocks /\ Blocks \subseteq Int
    BY DEF Known, Blocks
  <2>5. \A j \in Blocks : j <= i
    BY <2>3, <2>4 DEF Later
  <2>6. Max(Blocks) \in Blocks /\ \A y \in Blocks : Max(Blocks) >= y
    BY <2>4, <2>5, MaxFacts
  <2>7. Max(Blocks) = i
    <3>1. Max(Blocks) \in Int /\ i \in Int /\ Max(Blocks) <= i /\ Max(Blocks) >= i
      BY <2>4, <2>5, <2>6
    <3>2. QED
      BY ONLY <3>1
  <2>8. QED
    BY <2>1, <2>7
<1>8. QED
  BY <1>4, <1>6, <1>7

(***************************************************************************)
(* CoverageExact holds for every faithful log: of a log that was written   *)
(* to its end, covoar sees exactly the instructions of the blocks whose    *)
(* end the disassembly knows, though the converter looks at one line and   *)
(* one block at a time (TraceReaderLogQEMU.cc 59-168, TraceList.cc 14-27,  *)
(* TraceWriterQEMU.cc 109-142).                                            *)
(***************************************************************************)
THEOREM CoverageCorrect == Spec /\ Faithful(log) => []CoverageExact
<1>1. Init => SoundExact
  BY InitExact DEF SoundExact
<1>2. Faithful(log) /\ [Next]_vars => Faithful(log)'
  BY DEF Next, vars, SkipHeader, FindFirst, ReadFirst, ReadInstruction, EndBlock,
         NoFile, OpenFile, WriteEntry, WriteFails, CloseFile, reader
<1>3. Faithful(log) /\ SoundExact => CoverageExact
  BY CoverageFollows DEF SoundExact, CoverageExact
<1>4. QED
  BY <1>1, <1>2, <1>3, NextExact, PTL DEF Spec

(***************************************************************************)
(* DirectionsExact holds for every faithful log: each branch is told to go *)
(* where the block behind it shows it went, and the one that ends the log  *)
(* is the only one that is guessed (TraceReaderLogQEMU.cc 133-168).        *)
(***************************************************************************)
THEOREM DirectionsCorrect == Spec /\ Faithful(log) => []DirectionsExact
<1>1. Init => SoundExact
  BY InitExact DEF SoundExact
<1>2. Faithful(log) /\ [Next]_vars => Faithful(log)'
  BY DEF Next, vars, SkipHeader, FindFirst, ReadFirst, ReadInstruction, EndBlock,
         NoFile, OpenFile, WriteEntry, WriteFails, CloseFile, reader
<1>3. Faithful(log) /\ SoundExact => DirectionsExact
  BY DirectionsFollow DEF SoundExact, DirectionsExact
<1>4. QED
  BY <1>1, <1>2, <1>3, NextExact, PTL DEF Spec
=============================================================================
