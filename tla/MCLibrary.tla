------------------------------ MODULE MCLibrary ------------------------------
(***************************************************************************)
(* The libraries of Pintos, its clock, loader and memory, and the tools of *)
(* the ARM project on small inputs.  They share nothing: each part of the  *)
(* run starts one of them and leaves the others as they are.               *)
(***************************************************************************)
EXTENDS Lists, Hash, CLibrary, Archive, Clock, Loader, Emulator, Palloc, Malloc, UserMemory, TLC

LOCAL INSTANCE SequencesExt

CONSTANTS ea, eb, ec, ed   \* elements of lists, eb and ec with equal keys

VARIABLE part

Parts == {"lists", "hash", "calls", "archive", "clock", "arm", "palloc", "malloc", "user"}
-----------------------------------------------------------------------------
\* A constraint: of the elements that are on no list, at most one has been on one before.
FewRemoved == Cardinality({e \in ListElems : Loose(e) /\ next[e] # NULL}) <= 1
mcListKey(e) == CASE e = ea -> 1 [] e \in {eb, ec} -> 2 [] e = ed -> 3
mcKey(e) == e \div 10
mcHashOf(e) == CASE e \div 10 = 1 -> 0 [] e \div 10 = 2 -> 1 [] e \div 10 = 3 -> 4 [] OTHER -> 6

\* printf: a conversion as text, with the value and the width as arguments.
mcBits == [int |-> 8, hh |-> 4, h |-> 5, l |-> 8, ll |-> 12, j |-> 12, t |-> 8, z |-> 8]
SomeFlags == {s \in SUBSET {"-", "+", " ", "#", "0", "'"} : Cardinality(s) <= 2}
mcConversions ==
  LET text(flags, width, precision, type, conv) ==
        <<"%">> \o SetToSeq(flags)
          \o (CASE width = 0 -> <<>> [] width = 5 -> <<"5">> [] OTHER -> <<"*">>)
          \o (CASE precision = -1 -> <<>> [] precision = 0 -> <<".">> [] OTHER -> <<".", "3">>)
          \o (CASE type = "int" -> <<>> [] type = "hh" -> <<"h", "h">> [] OTHER -> <<"l", "l">>) \o <<conv>>
  IN  {[flags |-> f, width |-> w, precision |-> p, type |-> t, conv |-> c, value |-> v,
        text |-> text(f, w, p, t, c), args |-> IF w < 0 THEN <<w, v>> ELSE <<v>>] :
         f \in SomeFlags, w \in {0, 5, -7}, p \in {-1, 0, 3}, t \in {"int", "hh", "ll"},
         c \in {"d", "u", "o", "x"}, v \in {0, 7, -9, 1234}}

\* Files for the archive: one without data, one with a name that is too long.
mcArchived ==
  {[name |-> <<13>>, chunks |-> <<>>], [name |-> <<SLASH, 14>>, chunks |-> <<[i \in 1 .. HeaderSize |-> 5]>>],
   [name |-> <<13, 13, 13, 13>>, chunks |-> <<>>]}
mcGarbage == {[i \in 1 .. HeaderSize |-> NULCH], ustar_make_header(<<15>>, 0), [i \in 1 .. HeaderSize |-> 6]}

\* Executables: one segment anywhere, and a good one with another header.
header(t, o, v, f, m) == [type |-> t, offset |-> o, vaddr |-> v, filesz |-> f, memsz |-> m]
mcExecutables ==
  {<<header("load", o, v, f, m)>> :
     o \in {0, 1, 3, 5, 8, 13}, v \in 0 .. 31, f \in {0, 1, 4, 6, 8}, m \in (0 .. 9) \union {16, 27, 31}}
  \union {<<header("load", 1, 5, 2, 2), header(t, o, v, f, m)>> :
            t \in {"load", "ignored", "dynamic", "unreadable"}, o \in {0, 3}, v \in {4, 7, 8, 11}, f \in {0, 3}, m \in {3, 5}}

mcRadix == <<12, 2, 2>>
mcDividends == 0 .. 255

\* malloc, realloc and calloc; and an executable of two segments that share a page.
mcPairs == {<<2, 2>>, <<3, 6>>}
page(w, short) == [upage |-> 1, writable |-> w, short |-> short]
mcExecuted == {<<>>, <<page(FALSE, FALSE), page(TRUE, FALSE)>>, <<page(TRUE, TRUE)>>}
-----------------------------------------------------------------------------
\* Lines of assembly.
r(n) == [k |-> "r", n |-> n]
imm(n) == [k |-> "#", n |-> n]
const(n) == [k |-> "=", n |-> n]
sh(k, by) == [k |-> k, by |-> by]
place(base, offset, pre) ==
  [k |-> "[", base |-> base, offset |-> offset, pre |-> pre, zero |-> FALSE, hex |-> FALSE]
ref(base) == [place(base, 0, TRUE) EXCEPT !.zero = TRUE]
label(l) == [label |-> l]
ins(m, f) == [m |-> m, f |-> f]
mov(rd, n) == ins("mov", <<r(rd), imm(n)>>)
branch(m, l) == ins(m, <<label(l)>>)
halt == ins("andeq", <<r(0), r(0), r(0)>>)

SecondOperands ==
  {<<r(2)>>, <<imm(3)>>, <<imm(512)>>, <<r(2), sh("lsl", imm(2))>>, <<r(2), sh("lsr", imm(1))>>,
   <<r(2), sh("asr", r(1))>>, <<r(2), sh("lsl", r(1))>>, <<r(0), sh("ror", imm(3))>>}
Branches == {"b", "beq", "bne", "bge", "blt", "bgt", "ble"}
Few == {0, 1, 2, 5}

\* Every operation and every test, and a branch on its result over an instruction.
computing ==
  {<<mov(1, x), mov(2, y), mov(0, 1), ins(o, <<r(3), r(1)>> \o s), ins("cmp", <<r(3), imm(1)>>),
     branch(c, "l"), mov(4, 1), label("l"), mov(5, 1)>> :
     x \in Few, y \in {0, 5}, o \in {"and", "eor", "orr", "add", "sub", "rsb"}, s \in SecondOperands, c \in Branches}
comparing ==
  {<<mov(1, x), mov(2, y), ins("sub", <<r(2), r(2), imm(2)>>), ins(t, <<r(1), r(2)>>), branch(c, "l"),
     mov(4, 1), label("l"), halt>> : x \in Few, y \in Few, t \in {"tst", "teq", "cmp"}, c \in Branches}
\* Every form of address, and small and large constants.
moving ==
  {<<mov(1, 128), mov(2, 7), ins("str", <<r(2), a>>), ins("mla", <<r(3), r(1), r(2), r(2)>>),
     ins("lsl", <<r(3), imm(3)>>), ins("ldr", <<r(4), b>>), ins("ldr", <<r(5), const(n)>>), halt>> :
     a \in {ref(1), place(1, 8, TRUE), place(1, 0, TRUE), place(1, 4, FALSE), place(1, 12, FALSE)},
     b \in {ref(1), place(1, 4, TRUE), place(1, -4, TRUE), place(1, -4, FALSE), place(1, 250, TRUE)},
     n \in {5, 255, 259, 2047}}
\* Pin p is switched on and off after f has been added to a word of functions.
switching ==
  {<<ins("ldr", <<r(0), const(GPIO + o)>>), ins("ldr", <<r(2), ref(0)>>), mov(1, f), ins("str", <<r(1), ref(0)>>),
     ins("sub", <<r(0), r(0), imm(o)>>), mov(1, 2 ^ p), ins("str", <<r(1), place(0, 28, TRUE)>>),
     ins("str", <<r(1), place(0, 40, TRUE)>>), halt>> : o \in {4, 8}, p \in 0 .. 7, f \in {1, 2, 8, 64}}
\* arm11_testsuite/test_cases/factorial.s
factorial ==
  <<mov(0, 1), mov(1, 5), label("loop"), ins("mul", <<r(2), r(1), r(0)>>), ins("mov", <<r(0), r(2)>>),
    ins("sub", <<r(1), r(1), imm(1)>>), ins("cmp", <<r(1), imm(0)>>), branch("bne", "loop"), mov(3, 128),
    ins("str", <<r(2), ref(3)>>)>>
mcPrograms == computing \union comparing \union moving \union switching \union {factorial}

\* arm11_testsuite/test_cases/loop02.s
loop02 ==
  <<mov(2, 5), label("wait"), ins("sub", <<r(2), r(2), imm(1)>>), mov(1, 10), label("wait1"),
    ins("sub", <<r(1), r(1), imm(1)>>), ins("cmp", <<r(1), r(2)>>), branch("bne", "wait1"),
    ins("cmp", <<r(2), imm(0)>>), branch("bne", "wait")>>
mcLoop02 == {loop02}
mcPrefixOf(l) == IF l = "wait" THEN {"wait1"} ELSE {}
-----------------------------------------------------------------------------
NoCall == fn = "" /\ arg = <<>> /\ answer = <<>>
NoArchive == ArchiveInit /\ \A s \in DOMAIN scratch : scratch[s] = zeros
NoClock == RtcInit /\ moment = 0
NoProgram == program = <<>> /\ EmulatorStart(<<>>) /\ ~isBranch

SomeCall ==
  /\ answer = <<>>
  /\ StringsInit \/ StdlibInit \/ ArithmeticInit \/ StdioInit \/ UstarInit \/ ClockInit \/ LoaderInit

LibraryInit ==
  /\ ListsInit /\ HashInit /\ PallocInit /\ MallocInit /\ UserInit /\ part \in Parts
  /\ IF part = "calls" THEN SomeCall ELSE NoCall
  /\ IF part = "archive" THEN ArchiveInit ELSE NoArchive
  /\ IF part = "clock" THEN RtcInit ELSE NoClock
  /\ IF part = "arm" THEN ArmInit ELSE NoProgram

Call ==
  StringsCall \/ StdlibCall \/ ArithmeticCall \/ StdioCall \/ UstarCall \/ ClockCall \/ LoaderCall

LibraryNext ==
  /\ UNCHANGED part
  /\ \/ /\ part = "lists" /\ ListsNext
        /\ UNCHANGED <<hashVars, callVars, archiveVars, rtcVars, armVars, pallocVars, mallocVars, userVars>>
     \/ /\ part = "hash" /\ HashStep
        /\ UNCHANGED <<listVars, callVars, archiveVars, rtcVars, armVars, pallocVars, mallocVars, userVars>>
     \/ /\ part = "calls" /\ Call
        /\ UNCHANGED <<listVars, hashVars, archiveVars, rtcVars, armVars, pallocVars, mallocVars, userVars>>
     \/ /\ part = "archive" /\ ArchiveNext
        /\ UNCHANGED <<listVars, hashVars, callVars, rtcVars, armVars, pallocVars, mallocVars, userVars>>
     \/ /\ part = "clock" /\ RtcNext
        /\ UNCHANGED <<listVars, hashVars, callVars, archiveVars, armVars, pallocVars, mallocVars, userVars>>
     \/ /\ part = "arm" /\ ArmNext
        /\ UNCHANGED <<listVars, hashVars, callVars, archiveVars, rtcVars, pallocVars, mallocVars, userVars>>
     \/ /\ part = "palloc" /\ PallocNext
        /\ UNCHANGED <<listVars, hashVars, callVars, archiveVars, rtcVars, armVars, mallocVars, userVars>>
     \/ /\ part = "malloc" /\ MallocNext
        /\ UNCHANGED <<listVars, hashVars, callVars, archiveVars, rtcVars, armVars, pallocVars, userVars>>
     \/ /\ part = "user" /\ UserNext
        /\ UNCHANGED <<listVars, hashVars, callVars, archiveVars, rtcVars, armVars, pallocVars, mallocVars>>
LibrarySpec ==
  LibraryInit /\ [][LibraryNext]_<<part, listVars, hashVars, callVars, archiveVars, rtcVars, armVars,
                                   pallocVars, mallocVars, userVars>>
-----------------------------------------------------------------------------
\* Every call of a function that keeps no state answers what its comment promises (lib/string.c,
\* stdlib.c, arithmetic.c, stdio.c, ustar.c, devices/pit.c and timer.c, load of process.c).
LibraryRight ==
  /\ StringsRight /\ StdlibRight /\ ArithmeticRight /\ StdioRight /\ UstarRight
  /\ ClockRight /\ LoadRight
=============================================================================
