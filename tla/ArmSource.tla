------------------------------ MODULE ArmSource ------------------------------
(***************************************************************************)
(* What an assembly program of the ARM project means, line by line, with   *)
(* neither instruction words nor a pipeline.  A line is a label or a       *)
(* mnemonic with its operand fields; a field is a register, a number       *)
(* (# or =), a shift, an address or a label.                               *)
(***************************************************************************)
EXTENDS Integers, Sequences, Bitwise

CONSTANTS BITS, GPIO   \* the bits of a word; the address of the first word of the pins

VARIABLES
  program,     \* the lines
  next_line,   \* the instruction to execute next, counted without labels from 0
  regs,        \* r0 to r12
  condition,   \* of the last comparison: [equal, less]
  data,        \* the words of memory that are not code, by address
  shown        \* what the pins have shown

sourceVars == <<program, next_line, regs, condition, data, shown>>

WORD == 2 ^ BITS
unsigned(n) == n % WORD
signed(x) == IF x >= WORD \div 2 THEN x - WORD ELSE x

IsLabel(line) == "label" \in DOMAIN line
Code(lines) == SelectSeq(lines, LAMBDA line : ~IsLabel(line))
\* The number of instructions before label l.
Place(lines, l) ==
  LET at == CHOOSE i \in DOMAIN lines : IsLabel(lines[i]) /\ lines[i].label = l
  IN  Len(Code(SubSeq(lines, 1, at)))
-----------------------------------------------------------------------------
Value(field) == IF field.k = "r" THEN regs[field.n] ELSE unsigned(field.n)

Shift(kind, x, n) ==
  CASE kind = "lsl" -> unsigned(x * 2 ^ n)
    [] kind = "lsr" -> x \div 2 ^ n
    [] kind = "asr" -> unsigned(signed(x) \div 2 ^ n)
    [] kind = "ror" -> (x \div 2 ^ n) + ((x % 2 ^ n) * 2 ^ (BITS - n))

\* The second operand: field i of f, shifted when another field follows.
Second(f, i) ==
  IF i = Len(f) THEN Value(f[i]) ELSE Shift(f[i + 1].k, Value(f[i]), Value(f[i + 1].by))

Computed(line) ==
  LET f == line.f
      a == Value(f[2])
      b == Second(f, 3)
  IN  CASE line.m = "mov" -> Second(f, 2)
        [] line.m = "lsl" -> Shift("lsl", Value(f[1]), Value(f[2]))
        [] line.m = "mul" -> unsigned(a * Value(f[3]))
        [] line.m = "mla" -> unsigned(a * Value(f[3]) + Value(f[4]))
        [] line.m = "and" -> a & b
        [] line.m = "eor" -> a ^^ b
        [] line.m = "orr" -> a | b
        [] line.m = "add" -> unsigned(a + b)
        [] line.m = "sub" -> unsigned(a - b)
        [] line.m = "rsb" -> unsigned(b - a)

Compared(line) ==
  LET a == Value(line.f[1])
      b == Second(line.f, 2)
  IN  CASE line.m = "cmp" -> [equal |-> a = b, less |-> signed(a) < signed(b)]
        [] line.m = "tst" -> [equal |-> (a & b) = 0, less |-> signed(a & b) < 0]
        [] line.m = "teq" -> [equal |-> a = b, less |-> signed(a ^^ b) < 0]

Taken(m) ==
  CASE m = "b" -> TRUE
    [] m = "beq" -> condition.equal
    [] m = "bne" -> ~condition.equal
    [] m = "bge" -> ~condition.less
    [] m = "blt" -> condition.less
    [] m = "bgt" -> ~condition.less /\ ~condition.equal
    [] m = "ble" -> condition.less \/ condition.equal

\* Where a load or store goes, and what becomes of its base register.
Address(f) == unsigned(regs[f.base] + IF f.pre THEN f.offset ELSE 0)
Based(f) == IF f.pre THEN regs ELSE [regs EXCEPT ![f.base] = unsigned(@ + f.offset)]

IsFunctionWord(a) == a \in {GPIO, GPIO + 4, GPIO + 8}
-----------------------------------------------------------------------------
Line == Code(program)[next_line + 1]
Ready(ms) == next_line < Len(Code(program)) /\ Line.m \in ms
Onwards == next_line' = next_line + 1

Compute ==
  /\ Ready({"mov", "lsl", "mul", "mla", "and", "eor", "orr", "add", "sub", "rsb"}) /\ Onwards
  /\ regs' = [regs EXCEPT ![Line.f[1].n] = Computed(Line)]
  /\ UNCHANGED <<program, condition, data, shown>>

Compare ==
  /\ Ready({"cmp", "tst", "teq"}) /\ Onwards
  /\ condition' = Compared(Line)
  /\ UNCHANGED <<program, regs, data, shown>>

Constant ==
  /\ Ready({"ldr"}) /\ Line.f[2].k = "=" /\ Onwards
  /\ regs' = [regs EXCEPT ![Line.f[1].n] = Value(Line.f[2])]
  /\ UNCHANGED <<program, condition, data, shown>>

\* The function words of the pins read as their own addresses, and an address that is neither
\* there nor in memory is read as nothing.
Load ==
  LET a == Address(Line.f[2])
      based == Based(Line.f[2])
  IN  /\ Ready({"ldr"}) /\ Line.f[2].k = "[" /\ Onwards
      /\ regs' = IF IsFunctionWord(a) THEN [based EXCEPT ![Line.f[1].n] = a]
                 ELSE IF a \in DOMAIN data THEN [based EXCEPT ![Line.f[1].n] = data[a]]
                 ELSE based
      /\ shown' = IF IsFunctionWord(a) THEN Append(shown, "access") ELSE shown
      /\ UNCHANGED <<program, condition, data>>

\* A pin that is switched shows, unless the program is stopped.
Store ==
  LET a == Address(Line.f[2])
  IN  /\ Ready({"str"}) /\ Onwards
      /\ regs' = Based(Line.f[2])
      /\ shown' = CASE IsFunctionWord(a) -> Append(shown, "access")
                    [] a = GPIO + 40 -> Append(shown, "off")
                    [] a = GPIO + 28 -> Append(shown, "on")
                    [] OTHER -> shown
      /\ data' = IF a \in DOMAIN data THEN [data EXCEPT ![a] = regs[Line.f[1].n]] ELSE data
      /\ UNCHANGED <<program, condition>>

Jump ==
  /\ Ready({"b", "beq", "bne", "bge", "blt", "bgt", "ble"})
  /\ next_line' = IF Taken(Line.m) THEN Place(program, Line.f[1].label) ELSE next_line + 1
  /\ UNCHANGED <<program, regs, condition, data, shown>>

SourceNext == Compute \/ Compare \/ Constant \/ Load \/ Store \/ Jump

SourceInit ==
  /\ next_line = 0 /\ regs = [r \in 0 .. 12 |-> 0] /\ shown = <<>>
  /\ condition = [equal |-> FALSE, less |-> FALSE]
  /\ \A a \in DOMAIN data : data[a] = 0

SourceSpec == SourceInit /\ [][SourceNext]_sourceVars
=============================================================================
