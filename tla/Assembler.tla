------------------------------ MODULE Assembler ------------------------------
(***************************************************************************)
(* The assembler of the ARM project (assemble.c, assembler_defs.c,         *)
(* assembler/): two passes over the lines, then the constants that the     *)
(* loads left.  A word is four bytes, the highest first; write_to_file and *)
(* write_word put them in the file the other way round.  Text is taken to  *)
(* pieces here: a field of a line is a record, as in ArmSource.            *)
(***************************************************************************)
EXTENDS Integers, Sequences, Bitwise

CONSTANTS
  BITS,           \* of a word; 32 in the code
  MEMORY,         \* words of memory; 16384 in the code
  GPIO,           \* the address of the first word of the GPIO area; 0x20200000 in the code
  PrefixOf(_),    \* the labels that label l is a proper prefix of
  StackValues     \* what num_appended, which nothing initialises, may hold

\* Words are kept as numbers.
WORD == 2 ^ BITS
unsigned(n) == n % WORD
signed(x) == IF x >= WORD \div 2 THEN x - WORD ELSE x
bit_at(n, k) == (n \div 2 ^ k) % 2

IsLabelLine(line) == "label" \in DOMAIN line
-----------------------------------------------------------------------------
\* symbol_table.c: an entry <<label, address>> is not added when the label is that of an entry
\* or a prefix of it.
add_entry(table, label, address) ==
  IF \E i \in DOMAIN table : table[i][1] = label \/ table[i][1] \in PrefixOf(label) THEN table
  ELSE Append(table, <<label, address>>)

get_address(table, label) ==
  LET entries == SelectSeq(table, LAMBDA entry : entry[1] = label)
  IN  IF entries = <<>> THEN -1 ELSE entries[1][2]

\* The first pass: a label and an instruction both count four.
RECURSIVE parse_first(_, _, _)
parse_first(lines, table, address) ==
  IF lines = <<>> THEN table
  ELSE parse_first(Tail(lines),
                   IF IsLabelLine(Head(lines)) THEN add_entry(table, Head(lines).label, address) ELSE table,
                   address + 4)

Instructions(lines) == SelectSeq(lines, LAMBDA line : ~IsLabelLine(line))
-----------------------------------------------------------------------------
get_Register(field) == field.n
get_Mnemonic(m) ==
  CASE m = "and" -> 0 [] m = "eor" -> 1 [] m = "sub" -> 2 [] m = "rsb" -> 3 [] m = "add" -> 4
    [] m = "tst" -> 8 [] m = "teq" -> 9 [] m = "cmp" -> 10 [] m = "orr" -> 12 [] m = "mov" -> 13
get_shift(k) ==
  CASE k = "lsl" -> 1 [] k = "lsr" -> 2 [] k = "asr" -> 3 [] k = "ror" -> 4 [] OTHER -> 0

\* The immediate is turned left by two bits until it is all of the value.  When it gets too large
\* on the way there is a message and every bit of the operand is set; [i, bits] is the operand.
Mangled == [i |-> 255, bits |-> 4095]
RECURSIVE rotated(_, _, _)
rotated(immediate, curr, i) ==
  IF immediate > 255 THEN Mangled
  ELSE IF curr = 0 THEN [i |-> 1, bits |-> immediate + (i * 256)]
  ELSE rotated((immediate * 4) + (curr \div 2 ^ (BITS - 2)), (curr * 4) % WORD, i + 1)
int_to_operand2(val) == rotated(val % 256, val - (val % 256), 0)

\* What starts with r is taken for a register, ror too: the register that it shifts is then not
\* looked at, and r0 is shifted.
starts_with_r(field) == field.k \in {"r", "ror"}
Operand2(f) ==
  LET shifts == {i \in 2 .. Len(f) : ~starts_with_r(f[i]) /\ f[i].k # "#"}
      last == IF shifts = {} THEN Len(f) ELSE CHOOSE i \in shifts : \A j \in shifts : i <= j
      op2 == f[last]
      Rm == IF shifts = {} THEN 0 ELSE get_Register(f[last - 1])
      kind == (get_shift(op2.k) - 1) * 32
  IN  IF op2.k = "#" THEN int_to_operand2(op2.n)
      ELSE IF get_shift(op2.k) = 0 THEN [i |-> 0, bits |-> get_Register(op2)]
      ELSE IF op2.by.k = "r" THEN [i |-> 0, bits |-> (get_Register(op2.by) * 256) + kind + 16 + Rm]
      ELSE [i |-> 0, bits |-> (op2.by.n * 128) + kind + Rm]

write_instruction(operand2, opCode, S, Rn, Rd) ==
  << (224 | ((operand2.i * 2) % 256)) | (opCode \div 8),
     (((opCode * 32) % 256) | (S * 16)) | Rn,
     (Rd * 16) | (operand2.bits \div 256),
     operand2.bits % 256 >>

assemble_data_processing(m, f) ==
  LET op == get_Mnemonic(m)
  IN  CASE m = "mov" -> write_instruction(Operand2(f), op, 0, 0, get_Register(f[1]))
        [] m \in {"tst", "teq", "cmp"} -> write_instruction(Operand2(f), op, 1, get_Register(f[1]), 0)
        [] OTHER -> write_instruction(Operand2(f), op, 0, get_Register(f[2]), get_Register(f[1]))

assemble_multiply(m, f) ==
  << 224,
     get_Register(f[1]) + IF m = "mla" THEN 32 ELSE 0,
     get_Register(f[3]) + IF m = "mla" THEN 16 * get_Register(f[4]) ELSE 0,
     144 + get_Register(f[2]) >>

assemble_andeq == <<0, 0, 0, 0>>
-----------------------------------------------------------------------------
get_cond(m) ==
  CASE m = "beq" -> 0 [] m = "bne" -> 1 [] m = "bge" -> 10 [] m = "blt" -> 11
    [] m = "bgt" -> 12 [] m = "ble" -> 13 [] m = "b" -> 14

\* A word offset of 24 bits.
compute_offset(offset) ==
  IF offset >= 0 THEN offset \div 4 ELSE (2 ^ 25 + (offset + 2 ^ 25)) \div 4

assemble_branch(m, f, table, current_address) ==
  LET offset == compute_offset(get_address(table, f[1].label) - current_address - 8)
  IN  << get_cond(m) * 16 + 10, offset \div 65536, (offset \div 256) % 256, offset % 256 >>
-----------------------------------------------------------------------------
sdt_word(I, P, U, L, Rn, Rd, offset) ==
  << 228 + (2 * I) + P, (128 * U) + (16 * L) + Rn, (16 * Rd) | (offset \div 256), offset % 256 >>

abs(n) == IF n < 0 THEN -n ELSE n
\* The digits of an offset end at the x of 0x.
parse_offset_by_expression(field) == IF field.hex THEN 0 ELSE field.offset

\* A load of a constant is a mov when the constant is small enough; else the constant goes to the
\* end of the program, where every such load puts its own.
loads_constant(m, f) == m = "ldr" /\ f[2].k = "="
assemble_constant(f, current_address, end_address) ==
  IF f[2].n <= 255 THEN assemble_data_processing("mov", <<f[1], [k |-> "#", n |-> f[2].n]>>)
  ELSE sdt_word(0, 1, 1, 1, 15, get_Register(f[1]), abs(end_address - current_address - 4))

assemble_single_data_transfer(m, f) ==
  LET L == IF m = "ldr" THEN 1 ELSE 0
      P == IF f[2].pre \/ f[2].zero THEN 1 ELSE 0
      offset == parse_offset_by_expression(f[2])
      U == IF f[2].zero \/ offset > 0 THEN 1 ELSE 0
  IN  sdt_word(0, P, U, L, f[2].base, get_Register(f[1]), IF f[2].zero THEN 0 ELSE abs(offset))
-----------------------------------------------------------------------------
\* The word of an instruction; count and num_appended make up end_address.
word_of(line, table, current_address, count, num_appended) ==
  LET m == line.m   f == line.f
  IN  CASE m \in {"add", "sub", "rsb", "and", "eor", "orr", "mov", "tst", "teq", "cmp"} ->
             assemble_data_processing(m, f)
        [] m \in {"mul", "mla"} -> assemble_multiply(m, f)
        [] loads_constant(m, f) -> assemble_constant(f, current_address, 4 * (count + num_appended - 1))
        [] m \in {"ldr", "str"} /\ ~loads_constant(m, f) -> assemble_single_data_transfer(m, f)
        [] IsLabelLine(f[1]) -> assemble_branch(m, f, table, current_address)
        [] m = "lsl" -> assemble_data_processing("mov", <<f[1], f[1], [k |-> "lsl", by |-> f[2]]>>)
        [] m = "andeq" -> assemble_andeq

leaves_constant(line) == loads_constant(line.m, line.f) /\ line.f[2].n > 255

\* The second pass, from instruction i on; then the last constant, a word that is a number being
\* <<number>>, unless its low byte is zero, which is taken for the end of the constants.
RECURSIVE second_pass(_, _, _, _, _)
second_pass(instructions, table, i, appended, num_appended) ==
  IF i > Len(instructions) THEN IF appended % 256 = 0 THEN <<>> ELSE <<<<appended>>>>
  ELSE LET line == instructions[i]
       IN  <<word_of(line, table, 4 * (i - 1), Len(instructions), num_appended)>>
           \o second_pass(instructions, table, i + 1,
                          IF leaves_constant(line) THEN line.f[2].n ELSE appended,
                          num_appended + IF leaves_constant(line) THEN 1 ELSE 0)

\* There is no file when a label is missing: the assembler exits.
assemble(lines, num_appended) ==
  LET table == parse_first(lines, <<>>, 0)
      instructions == Instructions(lines)
      missing == \E i \in DOMAIN instructions :
                   IsLabelLine(instructions[i].f[1]) /\ get_address(table, instructions[i].f[1].label) = -1
  IN  IF missing THEN <<>> ELSE second_pass(instructions, table, 1, 0, num_appended)
=============================================================================
