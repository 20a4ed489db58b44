------------------------------- MODULE Emulator -------------------------------
(***************************************************************************)
(* The emulator of the ARM project (emulate.c, emulator/): a pipeline of   *)
(* three stages over the words of memory.  One step is one turn of the     *)
(* main loop.  A word of memory is an instruction, four bytes, the highest *)
(* first (reverse_instruction), or a number <<n>>; no program reads one as *)
(* the other, and addresses are multiples of four.                         *)
(***************************************************************************)
EXTENDS Assembler

VARIABLES
  registers,            \* r0 to r15
  CPSR,                 \* its flags
  memory,               \* by address
  GPIO_memory,          \* by offset
  fetched_Instruction,  \* an address: what is there is read when it is decoded
  decoded_Instruction,
  isBranch,             \* declared anew in every turn, in the place of the last one
  printed,              \* what the pins have shown
  aborted               \* an assertion has failed

emulatorVars ==
  <<registers, CPSR, memory, GPIO_memory, fetched_Instruction, decoded_Instruction, isBranch,
    printed, aborted>>

PC == 15
-----------------------------------------------------------------------------
\* cond.c: the four flags, and the condition in the highest four bits of a word.
z_set(flags) == flags.z = 1
n_equal_v(flags) == flags.n = flags.v
checkCond(w, flags) ==
  CASE w[1] \div 16 = 14 -> TRUE
    [] w[1] \div 16 = 0 -> z_set(flags)
    [] w[1] \div 16 = 1 -> ~z_set(flags)
    [] w[1] \div 16 = 10 -> n_equal_v(flags)
    [] w[1] \div 16 = 11 -> ~n_equal_v(flags)
    [] w[1] \div 16 = 12 -> ~z_set(flags) /\ n_equal_v(flags)
    [] w[1] \div 16 = 13 -> z_set(flags) \/ ~n_equal_v(flags)
    [] OTHER -> FALSE

decode(w) ==
  CASE (w[1] \div 4) % 4 = 1 -> "single_data_transfer"
    [] (w[1] \div 4) % 4 = 2 -> "branch"
    [] OTHER -> IF w[1] % 4 = 0 /\ w[2] \div 64 = 0 /\ w[4] \div 16 = 9 THEN "multiply"
                ELSE "data_processing"

\* common.c: the word and the carry; a shift by nothing leaves the carry alone.  The amount is a
\* byte, and the machine takes it modulo the bits of a word.  Right shifts are all of unsigned words.
shifter(shiftType, byte, word) ==
  LET amount == (byte % 256) % BITS
      out == IF shiftType = 0 THEN bit_at(word, BITS - amount) ELSE bit_at(word, amount - 1)
      shifted ==
        CASE shiftType = 0 -> unsigned(word * (2 ^ (amount)))
          [] shiftType \in {1, 2} -> word \div (2 ^ (amount))
          [] shiftType = 3 -> (word \div (2 ^ (amount))) | unsigned(word * (2 ^ (BITS - amount)))
  IN  IF amount = 0 THEN [word |-> word, carry |-> 0] ELSE [word |-> shifted, carry |-> out]
-----------------------------------------------------------------------------
\* data_processing.c
get_immediate_operand(w) == bit_at(w[1], 1)
get_OpCode(w) == (8 * (w[1] % 2)) + (w[2] \div 32)
get_Rn(w) == w[2] % 16
get_Rd(w) == w[3] \div 16
get_S(w) == bit_at(w[2], 4)

\* The operand in the last twelve bits, as a register, shifted, or turned.
register_operand(w, regs) ==
  LET shift == ((w[3] % 16) * 16) + (w[4] \div 16)
      shiftType == (shift \div 2) % 4
      word == regs[w[4] % 16]
  IN  IF shift % 2 = 0 THEN shifter(shiftType, shift \div 8, word)
      ELSE shifter(shiftType, regs[w[3] % 16], word)
turned_operand(w) == shifter(3, (w[3] % 16) * 2, w[4])

get_Operand2(w, regs) == IF get_immediate_operand(w) = 1 THEN turned_operand(w) ELSE register_operand(w, regs)

\* The N flag is the bit below the sign.
set_CPSR(flags, result, carry) ==
  [flags EXCEPT !.n = bit_at(result, BITS - 2), !.z = IF result = 0 THEN 1 ELSE 0, !.c = carry]

execute_data_processing(w, regs, flags) ==
  LET op2 == get_Operand2(w, regs)
      operand2 == op2.word
      Rn == get_Rn(w)   Rd == get_Rd(w)   opCode == get_OpCode(w)
      result ==
        CASE opCode \in {0, 8} -> regs[Rn] & operand2
          [] opCode \in {1, 9} -> regs[Rn] ^^ operand2
          [] opCode \in {2, 10} -> unsigned(regs[Rn] - operand2)
          [] opCode = 3 -> unsigned(operand2 - regs[Rn])
          [] opCode = 4 -> unsigned(regs[Rn] + operand2)
          [] opCode = 12 -> regs[Rn] | operand2
          [] opCode = 13 -> operand2
          [] OTHER -> 0
      after == IF opCode \in {0, 1, 2, 3, 4, 12, 13} THEN [regs EXCEPT ![Rd] = result] ELSE regs
      carry ==
        CASE opCode \in {2, 3, 10} -> IF operand2 > after[Rn] THEN 0 ELSE 1
          [] opCode = 4 -> bit_at(unsigned(after[Rn] + operand2), BITS - 1)
          [] OTHER -> op2.carry
  IN  [regs |-> after, flags |-> IF get_S(w) = 1 THEN set_CPSR(flags, result, carry) ELSE flags]

\* multiply.c: the Z flag is set and never cleared.
execute_multiply(w, regs, flags) ==
  LET Rd == w[2] % 16
      result == unsigned((regs[w[4] % 16] * regs[w[3] % 16])
                       + IF (w[2] \div 32) # 0 THEN regs[w[3] \div 16] ELSE 0)
  IN  [regs |-> [regs EXCEPT ![Rd] = result],
       flags |-> IF get_S(w) = 0 THEN flags
                 ELSE [flags EXCEPT !.n = bit_at(result, BITS - 1), !.z = IF result = 0 THEN 1 ELSE @]]

\* branch.c
get_offset(w) == (65536 * w[2]) + (256 * w[3]) + w[4]
get_sign_extended_offset(offset) ==
  IF bit_at(offset, 25) = 1 THEN offset - (2 ^ (26)) ELSE offset
execute_branch(w, regs) == [regs EXCEPT ![PC] = unsigned(@ + get_sign_extended_offset(4 * get_offset(w)))]
-----------------------------------------------------------------------------
\* gpio.c: three bits a pin, in three words that start as their own addresses.
PinsPerWord == BITS \div 3
is_GPIO_address(address) == address \in {GPIO, GPIO + 4, GPIO + 8}
initialise_GPIO_pins ==
  [offset \in {0, 4, 8, 28, 40} |-> IF offset <= 8 THEN GPIO + offset ELSE 0]

get_pin_number(shifted_pin) == CHOOSE k \in 0 .. BITS - 1 : shifted_pin \div (2 ^ (k)) = 1
is_output(pin, gpio) ==
  (gpio[4 * (pin \div PinsPerWord)] \div (2 ^ (3 * (pin % PinsPerWord)))) % 8 = 1
switches_pin(address) == address \in {GPIO + 28, GPIO + 40}
\* What is set is added to what was there.
set_pin_function(gpio, address, value) == [gpio EXCEPT ![address - GPIO] = @ | value]

\* What a load and a store do: to the registers, the memory, the pins, and what is printed.  A
\* store that is neither in memory nor a pin writes over something else; no program has one.
load(address, Rd, regs) ==
  IF is_GPIO_address(address) THEN [regs EXCEPT ![Rd] = address]
  ELSE IF address > 4 * MEMORY THEN regs
  ELSE [regs EXCEPT ![Rd] = memory[address][1]]

store(address, value) ==
  IF is_GPIO_address(address) THEN
    /\ GPIO_memory' = set_pin_function(GPIO_memory, address, value)
    /\ printed' = Append(printed, "access") /\ UNCHANGED <<memory, aborted>>
  ELSE IF switches_pin(address) THEN
    /\ GPIO_memory' = [GPIO_memory EXCEPT ![address - GPIO] = value]
    /\ printed' = Append(printed, IF address = GPIO + 28 THEN "on" ELSE "off")
    /\ UNCHANGED <<memory, aborted>>
  ELSE
    /\ memory' = [memory EXCEPT ![address] = <<value>>]
    /\ UNCHANGED <<GPIO_memory, printed, aborted>>

\* set_pin and clear_pin assert that the pin is an output.
assertion_holds(address, value) == switches_pin(address) => is_output(get_pin_number(value), GPIO_memory)

\* The offset is an immediate that is turned, as that of data processing is.
sdt_offset(w, regs) == IF get_immediate_operand(w) = 0 THEN turned_operand(w).word ELSE register_operand(w, regs).word
apply_offset(w, regs) ==
  IF w[2] >= 128 THEN unsigned(regs[get_Rn(w)] + sdt_offset(w, regs))
  ELSE unsigned(regs[get_Rn(w)] - sdt_offset(w, regs))

pre_indexing(w) == w[1] % 2 = 1
is_load(w) == bit_at(w[2], 4) = 1
transfer_address(w, regs) == IF pre_indexing(w) THEN apply_offset(w, regs) ELSE regs[get_Rn(w)]
post_indexed(w, regs) == IF pre_indexing(w) THEN regs ELSE [regs EXCEPT ![get_Rn(w)] = apply_offset(w, regs)]
-----------------------------------------------------------------------------
is_zero(w) == w \in {<<0, 0, 0, 0>>, <<0>>}
fetches == ~is_zero(decoded_Instruction) /\ ~aborted

\* Mutant: the instruction that was fetched before a branch is executed.
proceed_unflushed(branched, regs, mem) ==
  /\ decoded_Instruction' = mem[fetched_Instruction]
  /\ fetched_Instruction' = regs[PC]
  /\ registers' = [regs EXCEPT ![PC] = unsigned(@ + 4)]

\* The end of a turn: the next instruction is decoded and another fetched.  After a branch the
\* one that was fetched is dropped.  mem is the memory that they are read from.
proceed(branched, regs, mem) ==
  IF ~branched THEN
    /\ decoded_Instruction' = mem[fetched_Instruction]
    /\ fetched_Instruction' = regs[PC]
    /\ registers' = [regs EXCEPT ![PC] = unsigned(@ + 4)]
  ELSE
    /\ decoded_Instruction' = mem[regs[PC]]
    /\ fetched_Instruction' = unsigned(regs[PC] + 4)
    /\ registers' = [regs EXCEPT ![PC] = unsigned(@ + 8)]

executes(kind) == fetches /\ checkCond(decoded_Instruction, CPSR) /\ decode(decoded_Instruction) = kind

ExecuteDataProcessing ==
  LET done == execute_data_processing(decoded_Instruction, registers, CPSR)
  IN  /\ executes("data_processing")
      /\ CPSR' = done.flags /\ isBranch' = FALSE /\ proceed(FALSE, done.regs, memory)
      /\ UNCHANGED <<memory, GPIO_memory, printed, aborted>>

ExecuteMultiply ==
  LET done == execute_multiply(decoded_Instruction, registers, CPSR)
  IN  /\ executes("multiply")
      /\ CPSR' = done.flags /\ isBranch' = FALSE /\ proceed(FALSE, done.regs, memory)
      /\ UNCHANGED <<memory, GPIO_memory, printed, aborted>>

ExecuteLoad ==
  LET w == decoded_Instruction
      address == transfer_address(w, registers)
  IN  /\ executes("single_data_transfer") /\ is_load(w)
      /\ isBranch' = FALSE
      /\ printed' = IF is_GPIO_address(address) THEN Append(printed, "access") ELSE printed
      /\ proceed(FALSE, post_indexed(w, load(address, get_Rd(w), registers)), memory)
      /\ UNCHANGED <<memory, CPSR, GPIO_memory, aborted>>

ExecuteStore ==
  LET w == decoded_Instruction
      address == transfer_address(w, registers)
      value == registers[get_Rd(w)]
  IN  /\ executes("single_data_transfer") /\ ~is_load(w)
      /\ assertion_holds(address, value) /\ store(address, value)
      /\ isBranch' = FALSE
      /\ proceed(FALSE, post_indexed(w, registers), memory')
      /\ UNCHANGED CPSR

FailAssertion ==
  LET w == decoded_Instruction
  IN  /\ executes("single_data_transfer") /\ ~is_load(w)
      /\ ~assertion_holds(transfer_address(w, registers), registers[get_Rd(w)])
      /\ aborted' = TRUE
      /\ UNCHANGED <<registers, CPSR, memory, GPIO_memory, fetched_Instruction, decoded_Instruction,
                     isBranch, printed>>

ExecuteBranch ==
  /\ executes("branch")
  /\ isBranch' = TRUE /\ proceed(TRUE, execute_branch(decoded_Instruction, registers), memory)
  /\ UNCHANGED <<memory, CPSR, GPIO_memory, printed, aborted>>

\* The condition does not hold: nothing sets isBranch.
Skip ==
  /\ fetches /\ ~checkCond(decoded_Instruction, CPSR)
  /\ proceed(isBranch, registers, memory)
  /\ UNCHANGED <<memory, CPSR, GPIO_memory, isBranch, printed, aborted>>

EmulatorNext ==
  \/ ExecuteDataProcessing \/ ExecuteMultiply \/ ExecuteLoad \/ ExecuteStore
  \/ FailAssertion \/ ExecuteBranch \/ Skip

\* The file is read into memory that is otherwise zero.
parse_file(words) ==
  [address \in {4 * i : i \in 0 .. MEMORY - 1} |->
     IF address \div 4 < Len(words) THEN words[(address \div 4) + 1] ELSE <<0>>]

EmulatorStart(words) ==
  /\ memory = parse_file(words)
  /\ registers = [r \in 0 .. 15 |-> IF r = PC THEN 8 ELSE 0]
  /\ CPSR = [n |-> 0, z |-> 0, c |-> 0, v |-> 0]
  /\ GPIO_memory = initialise_GPIO_pins
  /\ decoded_Instruction = memory[0] /\ fetched_Instruction = 4
  /\ isBranch \in BOOLEAN
  /\ printed = <<>> /\ aborted = FALSE
-----------------------------------------------------------------------------
\* A program from its source to its end: the assembler writes a file, and the emulator runs it.
CONSTANTS
  SourceTexts,    \* the programs that are run
  DATA         \* words from this address on are the data of the programs

VARIABLE program

armVars == <<program, emulatorVars>>

ArmInit ==
  \E num_appended \in StackValues :
    /\ program \in SourceTexts
    /\ \E words \in {assemble(program, num_appended)} : EmulatorStart(words)

ArmNext == EmulatorNext /\ UNCHANGED program
ArmSpec == ArmInit /\ [][ArmNext]_armVars

Source ==
  INSTANCE ArmSource WITH
    next_line <- (registers[PC] - 8) \div 4,
    regs <- [r \in 0 .. 12 |-> registers[r]],
    condition <- [equal |-> CPSR.z = 1, less |-> CPSR.n # CPSR.v],
    data <- [a \in {4 * i : i \in DATA \div 4 .. MEMORY - 1} |-> memory[a][1]],
    shown <- printed
-----------------------------------------------------------------------------
\* Every turn of the emulator does what the line of the program that its instruction was
\* assembled from says, and goes on to the line that the program goes on to: encoding and
\* decoding, the branch offsets of the two passes and the refilling of the pipeline agree
\* (assemble.c, emulate.c).
ImplementsSource == Source!SourceSpec

\* A label stands for the instruction that follows it, as in the program of
\* arm11_testsuite/test_cases/loop02.s, which has two (symbol_table.h).
LabelsWhereWritten ==
  \A i \in DOMAIN program : IsLabelLine(program[i]) =>
    get_address(parse_first(program, <<>>, 0), program[i].label) = 4 * Source!Place(program, program[i].label)
==============================================================================
