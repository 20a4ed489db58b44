------------------------------ MODULE CLibrary ------------------------------
(***************************************************************************)
(* The C library of the kernel, lib/: string.c, stdlib.c, arithmetic.c and *)
(* stdio.c.  Each behaviour is one call of one of its functions.           *)
(***************************************************************************)
EXTENDS Calls

LOCAL INSTANCE SequencesExt
LOCAL INSTANCE FiniteSetsExt

(***************************************************************************)
(* lib/string.c.  Memory is a sequence of bytes, a pointer an offset into  *)
(* it that starts at 0; a string ends at its first null byte.              *)
(***************************************************************************)
CONSTANTS
  CharBytes,     \* the bytes that are not null
  StringLen,     \* the longest string
  MemorySize     \* the bytes of a memory in which blocks may overlap

NullPtr == -1
at(s, p) == s[p + 1]
put(s, p, byte) == [s EXCEPT ![p + 1] = byte]
-----------------------------------------------------------------------------
\* A byte at a time, upwards or downwards.
copy_up(m, dst, src, size) ==
  FoldLeft(LAMBDA k, i : put(k, dst + i, at(k, src + i)), m, [i \in 1 .. size |-> i - 1])
copy_down(m, dst, src, size) ==
  FoldLeft(LAMBDA k, i : put(k, dst + i, at(k, src + i)), m, [i \in 1 .. size |-> size - i])

\* The memory and the pointer returned, which is the one that copying has moved: behind the
\* block when it went upwards.
memmove(m, dst, src, size) ==
  IF dst < src THEN <<copy_up(m, dst, src, size), dst + size>>
  ELSE <<copy_down(m, dst, src, size), dst>>

\* The sign of the first difference of two blocks.
RECURSIVE memcmp(_, _, _, _, _)
memcmp(a, p, b, q, size) ==
  IF size = 0 THEN 0
  ELSE IF at(a, p) # at(b, q) THEN IF at(a, p) > at(b, q) THEN 1 ELSE -1
  ELSE memcmp(a, p + 1, b, q + 1, size - 1)

RECURSIVE strcmp(_, _, _)
strcmp(a, b, p) ==
  IF at(a, p) # 0 /\ at(a, p) = at(b, p) THEN strcmp(a, b, p + 1)
  ELSE IF at(a, p) < at(b, p) THEN -1 ELSE IF at(a, p) > at(b, p) THEN 1 ELSE 0

RECURSIVE memchr(_, _, _, _)
memchr(s, p, ch, size) ==
  IF size = 0 THEN NullPtr ELSE IF at(s, p) = ch THEN p ELSE memchr(s, p + 1, ch, size - 1)

RECURSIVE strchr(_, _, _)
strchr(s, p, c) ==
  IF at(s, p) = c THEN p ELSE IF at(s, p) = 0 THEN NullPtr ELSE strchr(s, p + 1, c)

\* The last place at or after p of a character that is not the end; found so far: q.
RECURSIVE strrchr(_, _, _, _)
strrchr(s, p, c, q) ==
  IF at(s, p) = 0 THEN q ELSE strrchr(s, p + 1, c, IF at(s, p) = c THEN p ELSE q)

\* How many characters from p on are, or are not, in the set.
RECURSIVE span(_, _, _, _)
span(s, p, chars, in) ==
  IF at(s, p) = 0 \/ (strchr(chars, 0, at(s, p)) # NullPtr) # in THEN 0 ELSE 1 + span(s, p + 1, chars, in)

strspn(s, skip) == span(s, 0, skip, TRUE)
strcspn(s, stop) == span(s, 0, stop, FALSE)

strpbrk(s, stop) == LET p == span(s, 0, stop, FALSE) IN IF at(s, p) = 0 THEN NullPtr ELSE p

RECURSIVE strlen(_, _)
strlen(s, p) == IF at(s, p) = 0 THEN 0 ELSE 1 + strlen(s, p + 1)

RECURSIVE strnlen(_, _, _)
strnlen(s, p, maxlen) == IF at(s, p) = 0 \/ p = maxlen THEN p ELSE strnlen(s, p + 1, maxlen)

RECURSIVE strstr(_, _, _)
strstr(haystack, needle, i) ==
  IF i + strlen(needle, 0) > strlen(haystack, 0) THEN NullPtr
  ELSE IF memcmp(haystack, i, needle, 0, strlen(needle, 0)) = 0 THEN i ELSE strstr(haystack, needle, i + 1)

\* The string src, cut to copy bytes, and its end are written at p.
write_string(dst, p, src, copy) ==
  [i \in DOMAIN dst |-> IF i \in p + 1 .. p + copy THEN src[i - p] ELSE IF i = p + copy + 1 THEN 0 ELSE dst[i]]
at_most(a, b) == IF a < b THEN a ELSE b

strlcpy(dst, src, size) ==
  <<IF size = 0 THEN dst ELSE write_string(dst, 0, src, at_most(strlen(src, 0), size - 1)), strlen(src, 0)>>

strlcat(dst, src, size) ==
  LET n == strlen(dst, 0)
  IN  <<IF size > n THEN write_string(dst, n, src, at_most(strlen(src, 0), size - n - 1)) ELSE dst,
        n + strlen(src, 0)>>

\* One call of strtok_r from position s: the token, the memory and the saved position.
strtok_r(m, delims, s) ==
  LET token == s + span(m, s, delims, TRUE)
      end == token + span(m, token, delims, FALSE)
  IN  IF at(m, token) = 0 THEN [token |-> NullPtr, m |-> m, save |-> token]
      ELSE [token |-> token, m |-> put(m, end, 0), save |-> IF at(m, end) = 0 THEN end ELSE end + 1]

\* Calls until there is no token left; a token is the string at its place.
RECURSIVE tokens(_, _, _)
tokens(m, delims, s) ==
  LET t == strtok_r(m, delims, s)
  IN  IF t.token = NullPtr THEN <<>>
      ELSE <<SubSeq(t.m, t.token + 1, t.token + strlen(t.m, t.token))>> \o tokens(t.m, delims, t.save)
-----------------------------------------------------------------------------
Texts(n) == UNION {[1 .. k -> CharBytes] : k \in 0 .. n}
CStrings(n) == {t \o <<0>> : t \in Texts(n)}
Blocks == [1 .. MemorySize -> CharBytes \union {0}]

StringFns == {"memmove", "memcmp", "memchr", "strcmp", "strchr", "strrchr", "strspn", "strcspn",
              "strpbrk", "strstr", "strnlen", "strlcpy", "strlcat", "strtok_r"}

\* The calls: every overlap of two blocks, every pair of short strings.
StringsInit ==
  \/ /\ fn = "memmove"
     /\ \E dst, src \in 0 .. MemorySize : \E size \in 0 .. MemorySize - (IF dst > src THEN dst ELSE src) :
          arg = <<[i \in 1 .. MemorySize |-> i], dst, src, size>>
  \/ fn \in {"memcmp", "memchr"} /\ \E a, b \in [1 .. 2 -> CharBytes \union {0}] : arg = <<a, b>>
  \/ fn \in {"strcmp", "strspn", "strcspn", "strpbrk", "strtok_r"} /\
       \E a \in CStrings(StringLen), b \in CStrings(2) : arg = <<a, b>>
  \/ fn = "strstr" /\ \E a \in CStrings(StringLen + 1), b \in CStrings(2) : arg = <<a, b>>
  \/ fn \in {"strchr", "strrchr"} /\ \E a \in CStrings(StringLen), c \in CharBytes : arg = <<a, c>>
  \/ fn = "strnlen" /\ \E a \in CStrings(StringLen), n \in 0 .. StringLen + 1 : arg = <<a, n>>
  \/ fn \in {"strlcpy", "strlcat"} /\
       \E a, b \in CStrings(2), size \in 0 .. 5 : arg = <<a \o [i \in 1 .. 5 - Len(a) |-> 9], b, size>>

StringRun ==
  CASE fn = "memmove" -> memmove(arg[1], arg[2], arg[3], arg[4])
    [] fn = "memcmp" -> memcmp(arg[1], 0, arg[2], 0, 2)
    [] fn = "memchr" -> memchr(arg[1], 0, arg[2][1], 2)
    [] fn = "strcmp" -> strcmp(arg[1], arg[2], 0)
    [] fn = "strchr" -> strchr(arg[1], 0, arg[2])
    [] fn = "strrchr" -> strrchr(arg[1], 0, arg[2], NullPtr)
    [] fn = "strspn" -> strspn(arg[1], arg[2])
    [] fn = "strcspn" -> strcspn(arg[1], arg[2])
    [] fn = "strpbrk" -> strpbrk(arg[1], arg[2])
    [] fn = "strstr" -> strstr(arg[1], arg[2], 0)
    [] fn = "strnlen" -> strnlen(arg[1], 0, arg[2])
    [] fn = "strlcpy" -> strlcpy(arg[1], arg[2], arg[3])
    [] fn = "strlcat" -> strlcat(arg[1], arg[2], arg[3])
    [] fn = "strtok_r" -> tokens(arg[1], arg[2], 0)

StringsCall == Answers(StringFns, StringRun)
-----------------------------------------------------------------------------
\* What the comments say, on the text of a string.
Text(s) == SubSeq(s, 1, (CHOOSE i \in DOMAIN s : s[i] = 0 /\ \A j \in 1 .. i - 1 : s[j] # 0) - 1)
First(S) == IF S = {} THEN NullPtr ELSE Min(S)
Lower(s, t) == IsStrictPrefix(s, t) \/
  \E i \in DOMAIN s \intersect DOMAIN t : s[i] < t[i] /\ SubSeq(s, 1, i - 1) = SubSeq(t, 1, i - 1)
Order(s, t) == IF s = t THEN 0 ELSE IF Lower(s, t) THEN -1 ELSE 1
Places(s, chars) == {i - 1 : i \in {i \in DOMAIN s : s[i] \in chars}}
Prefix(s, n) == SubSeq(s, 1, at_most(n, Len(s)))

\* The longest pieces of a text without delimiters, in order.
RECURSIVE Pieces(_, _)
Pieces(t, delims) ==
  LET i == First(Places(t, ToSet(t) \ delims))
      rest == SubSeq(t, i + 1, Len(t))
      j == First(Places(rest, delims))
  IN  IF i = NullPtr THEN <<>> ELSE IF j = NullPtr THEN <<rest>>
      ELSE <<SubSeq(rest, 1, j)>> \o Pieces(SubSeq(rest, j + 1, Len(rest)), delims)

\* The memory after a copy that is limited to size bytes in all and keeps the first part.
Limited(dst, kept, whole, size) ==
  IF size <= Len(kept) THEN dst
  ELSE LET text == Prefix(whole, size - 1)
       IN  text \o <<0>> \o SubSeq(dst, Len(text) + 2, Len(dst))

\* A block arrives whole even when it overlaps its source, comparisons are lexicographic on
\* unsigned bytes, searches find the first (strrchr the last) place, a limited copy is always
\* ended inside its size, and strtok_r returns the longest pieces, none empty (string.c).  The
\* pointer that memmove returns is left to MemmoveReturnsDst.
StringsRight ==
  answer # <<>> /\ fn \in StringFns =>
    LET a == IF fn \in {"memmove", "memcmp", "memchr"} THEN arg[1] ELSE Text(arg[1])
        b == IF fn \in {"strcmp", "strspn", "strcspn", "strpbrk", "strstr", "strlcpy", "strlcat", "strtok_r"}
             THEN Text(arg[2]) ELSE arg[2]
    IN  (IF fn = "memmove" THEN answer[1][1] ELSE answer[1]) =
          CASE fn = "memmove" -> [i \in DOMAIN a |-> IF i \in arg[2] + 1 .. arg[2] + arg[4]
                                                     THEN a[i - arg[2] + arg[3]] ELSE a[i]]
            [] fn \in {"memcmp", "strcmp"} -> Order(a, b)
            [] fn = "memchr" -> First(Places(a, {b[1]}))
            [] fn = "strchr" -> First(Places(a, {b}))
            [] fn = "strrchr" -> IF Places(a, {b}) = {} THEN NullPtr ELSE Max(Places(a, {b}))
            [] fn = "strspn" -> Min({Len(a)} \union Places(a, ToSet(a) \ ToSet(b)))
            [] fn = "strcspn" -> Min({Len(a)} \union Places(a, ToSet(b)))
            [] fn = "strpbrk" -> First(Places(a, ToSet(b)))
            [] fn = "strstr" -> First({i \in 0 .. Len(a) - Len(b) : SubSeq(a, i + 1, i + Len(b)) = b})
            [] fn = "strnlen" -> at_most(Len(a), b)
            [] fn = "strlcpy" -> <<Limited(arg[1], <<>>, b, arg[3]), Len(b)>>
            [] fn = "strlcat" -> <<Limited(arg[1], a, a \o b, arg[3]), Len(a) + Len(b)>>
            [] fn = "strtok_r" -> Pieces(a, ToSet(b))

\* The comment of memmove, string.c:21-22, says that it returns its first argument.  The code
\* returns its copy of it, which the loop for a destination below the source has moved.
MemmoveReturnsDst == answer # <<>> /\ fn = "memmove" => answer[1][2] = arg[2]
-----------------------------------------------------------------------------
(***************************************************************************)
(* lib/stdlib.c: atoi, the heap sort and the binary search.  An array is a *)
(* sequence of numbers, and compare their order; the bytes of the elements *)
(* are left out.                                                           *)
(*                                                                         *)
(* lib/arithmetic.c: division of double words out of one instruction that  *)
(* divides a double word by a word and traps when the quotient is no word. *)
(* A word has W bits, 32 in the code; W is a power of 2 here.              *)
(***************************************************************************)
CONSTANTS
  MaxCnt,      \* the most elements of an array
  Values,      \* what they may be
  IntMax       \* the greatest int; the least is one further from 0

SPACE == -1
PLUS == -2
MINUS == -3
OTHER_CHAR == -4
OVERFLOW == -IntMax - 2   \* undefined behaviour, told apart from every int
Digits == 0 .. 9
ints == -IntMax - 1 .. IntMax
-----------------------------------------------------------------------------
\* The digits from place i on, added to value; overflow, which is undefined, is remembered.
RECURSIVE digits_from(_, _, _)
digits_from(s, i, value) ==
  IF i > Len(s) THEN value
  ELSE IF s[i] \notin Digits THEN value
  ELSE IF value * 10 - s[i] \in ints THEN digits_from(s, i + 1, value * 10 - s[i]) ELSE OVERFLOW

RECURSIVE skip_space(_, _)
skip_space(s, i) == IF i <= Len(s) /\ s[i] = SPACE THEN skip_space(s, i + 1) ELSE i

atoi(s) ==
  LET i == skip_space(s, 1)
      sign == IF i <= Len(s) THEN s[i] ELSE SPACE
      value == digits_from(s, IF sign \in {PLUS, MINUS} THEN i + 1 ELSE i, 0)
  IN  IF sign = MINUS \/ value = OVERFLOW THEN value
      ELSE IF -value \in ints THEN -value ELSE OVERFLOW

\* The numbers n, n - 1, ..., m.
downto(n, m) == [k \in 1 .. (IF n < m THEN 0 ELSE n - m + 1) |-> n - k + 1]

do_swap(a, i, j) == [a EXCEPT ![i] = a[j], ![j] = a[i]]

\* Float down the element at i in the first cnt elements.
RECURSIVE heapify(_, _, _)
heapify(a, i, cnt) ==
  LET left == 2 * i   right == 2 * i + 1
      larger == IF left <= cnt /\ a[IF left <= cnt THEN left ELSE i] > a[i] THEN left ELSE i
      max == IF right <= cnt /\ a[IF right <= cnt THEN right ELSE i] > a[larger] THEN right ELSE larger
  IN  IF max = i THEN a ELSE heapify(do_swap(a, i, max), max, cnt)

sort(a) ==
  LET cnt == Len(a)
      heap == FoldLeft(LAMBDA b, i : heapify(b, i, cnt), a, downto(cnt \div 2, 1))
  IN  FoldLeft(LAMBDA b, i : heapify(do_swap(b, 1, i), 1, i - 1), heap, downto(cnt, 2))

\* Elements first to last, exclusive; 0 for a null pointer.
RECURSIVE binary_search(_, _, _, _)
binary_search(key, a, first, last) ==
  LET middle == first + (last - first) \div 2
  IN  IF first >= last THEN 0
      ELSE IF key < a[middle] THEN binary_search(key, a, first, middle)
      ELSE IF key > a[middle] THEN binary_search(key, a, middle + 1, last)
      ELSE middle
-----------------------------------------------------------------------------
Arrays == UNION {[1 .. n -> Values] : n \in 0 .. MaxCnt}
InOrder(a) == \A i, j \in DOMAIN a : i < j => a[i] <= a[j]
StdlibFns == {"atoi", "sort", "bsearch"}

StdlibInit ==
  \/ fn = "sort" /\ arg \in Arrays
  \/ fn = "bsearch" /\ \E a \in Arrays, key \in Values : InOrder(a) /\ arg = <<key, a>>
  \/ /\ fn = "atoi"
     /\ \E space \in {<<>>, <<SPACE>>}, sign \in {<<>>, <<MINUS>>, <<PLUS>>},
           d \in {<<>>, <<7>>} \union [1 .. 2 -> {0, 1, 5, 6}], end \in {<<>>, <<OTHER_CHAR, 1>>} :
          arg = space \o sign \o d \o end

StdlibRun ==
  CASE fn = "atoi" -> atoi(arg)
    [] fn = "sort" -> sort(arg)
    [] fn = "bsearch" -> binary_search(arg[1], arg[2], 1, Len(arg[2]) + 1)

StdlibCall == Answers(StdlibFns, StdlibRun)
-----------------------------------------------------------------------------
\* sort leaves the same elements in order; bsearch finds a key exactly when it is there; atoi
\* reads every number that an int can hold, the least one too, without overflow on the way
\* ("the negative range of an int is bigger", stdlib.c:36).
StdlibRight ==
  answer # <<>> /\ fn \in StdlibFns =>
    CASE fn = "sort" ->
           /\ InOrder(answer[1])
           /\ \A v \in Values : Len(SelectSeq(answer[1], LAMBDA x : x = v)) = Len(SelectSeq(arg, LAMBDA x : x = v))
      [] fn = "bsearch" ->
           IF answer[1] = 0 THEN arg[1] \notin ToSet(arg[2]) ELSE arg[2][answer[1]] = arg[1]
      [] fn = "atoi" ->
           LET upto == CHOOSE n \in 0 .. Len(arg) : /\ \A i \in 1 .. n : arg[i] # OTHER_CHAR
                                                    /\ n = Len(arg) \/ arg[n + 1] = OTHER_CHAR
               n == FoldLeft(LAMBDA v, x : v * 10 + x, 0,
                             SelectSeq(SubSeq(arg, 1, upto), LAMBDA x : x \in Digits))
               value == IF MINUS \in ToSet(arg) THEN -n ELSE n
           IN  answer[1] = IF value \in ints THEN value ELSE OVERFLOW
-----------------------------------------------------------------------------
CONSTANTS
  W,
  Dividends    \* the double words that are divided

Words == 2 ^ W
Doubles == 2 ^ (2 * W)
TRAP == -1
shr(x, s) == x \div 2 ^ s
shl(x, s) == (x * 2 ^ s) % Doubles
-----------------------------------------------------------------------------
\* The DIVL instruction: #DE when the quotient does not fit.
divl(n, d) == IF d = 0 THEN TRAP ELSE IF n \div d >= Words THEN TRAP ELSE n \div d

\* Leading zero bits: half the width, then half of that, ...
RECURSIVE nlz_step(_, _, _)
nlz_step(x, k, n) ==
  IF k = 0 THEN n
  ELSE IF x <= 2 ^ (W - k) - 1 THEN nlz_step((x * 2 ^ k) % Words, k \div 2, n + k)
  ELSE nlz_step(x, k \div 2, n)
nlz(x) == nlz_step(x, W \div 2, 0)

\* Mutant: the estimate is taken as the quotient.
estimate_taken(n, d, q) == q

\* The estimate is right or one too great.
estimate_corrected(n, d, q) == IF (n - (q - 1) * d) % Doubles < d THEN q - 1 ELSE q

udiv64(n, d) ==
  LET n1 == shr(n, W)   n0 == n % Words   s == nlz(shr(d, W))
      low == divl(Words * (n1 % d) + n0, d)
      top == divl(shr(n, 1), shr(shl(d, s), W))
  IN  IF shr(d, W) = 0 THEN IF low = TRAP THEN TRAP ELSE (low + Words * (n1 \div d)) % Doubles
      ELSE IF n < d THEN 0
      ELSE IF top = TRAP THEN TRAP ELSE estimate_corrected(n, d, shr(top, W - 1 - s))

\* Only a word of the remainder is returned.
umod64(n, d) == (n - d * udiv64(n, d)) % Words

\* A double word as a signed number, and back.
signed64(x) == IF x >= Doubles \div 2 THEN x - Doubles ELSE x
unsigned64(i) == i % Doubles
abs64(i) == IF i >= 0 THEN i ELSE unsigned64(-i)

sdiv64(n, d) ==
  LET q == udiv64(abs64(n), abs64(d))
  IN  IF (n < 0) = (d < 0) THEN signed64(q) ELSE signed64(unsigned64(-q))

\* Only a word of it, as a signed number.
smod64(n, d) ==
  LET r == (n - d * sdiv64(n, d)) % Words IN IF r >= Words \div 2 THEN r - Words ELSE r
-----------------------------------------------------------------------------
ArithmeticFns == {"udiv64", "umod64", "sdiv64", "smod64"}
ArithmeticInit == fn \in ArithmeticFns /\ arg \in Dividends

\* A dividend by every divisor.
ArithmeticRun ==
  [d \in 1 .. Doubles - 1 |->
     CASE fn = "udiv64" -> udiv64(arg, d)
       [] fn = "umod64" -> umod64(arg, d)
       [] fn = "sdiv64" -> sdiv64(signed64(arg), signed64(d))
       [] fn = "smod64" -> smod64(signed64(arg), signed64(d))]

ArithmeticCall == Answers(ArithmeticFns, ArithmeticRun)
-----------------------------------------------------------------------------
\* C rounds to zero; the quotient of the least number by -1 wraps.
Quotient(n, d) ==
  LET q == abs64(n) \div abs64(d) IN IF (n < 0) = (d < 0) THEN signed64(q) ELSE -q
Remainder(n, d) == n - d * (LET q == abs64(n) \div abs64(d) IN IF (n < 0) = (d < 0) THEN q ELSE -q)

\* Quotients are exact for all operands and DIVL never traps, as the proofs in the comments of
\* udiv64 say; a remainder is right when it fits in a word.
ArithmeticRight ==
  answer # <<>> /\ fn \in ArithmeticFns =>
    \A d \in 1 .. Doubles - 1 :
      LET a == answer[1][d]   n == signed64(arg)   e == signed64(d)
      IN  CASE fn = "udiv64" -> a = arg \div d
            [] fn = "umod64" -> arg % d < Words => a = arg % d
            [] fn = "sdiv64" -> a = Quotient(n, e)
            [] fn = "smod64" -> Remainder(n, e) \in -(Words \div 2) .. Words \div 2 - 1 => a = Remainder(n, e)

\* "Divides unsigned 64-bit N by unsigned 64-bit D and returns the remainder" (arithmetic.c:125).
RemainderWhole ==
  answer # <<>> /\ fn = "umod64" => \A d \in 1 .. Doubles - 1 : answer[1][d] = arg % d
-----------------------------------------------------------------------------
(***************************************************************************)
(* lib/stdio.c: printf and its relatives.  A character is a string of      *)
(* length 1, a format a sequence of them with a null character at its end, *)
(* and the arguments a sequence of values.                                 *)
(***************************************************************************)
CONSTANTS
  Bits,        \* Bits[t]: the width of an integer type
  BUF_SIZE,    \* format_integer's buffer; 64 in the code
  per_line,    \* bytes on a line of hex_dump; 16 in the code
  KILO,        \* 1024 in the code
  Conversions  \* the conversions that are tried: records with fields text, value

NUL == "NUL"
Chars10 == <<"0", "1", "2", "3", "4", "5", "6", "7", "8", "9">>
Chars16 == Chars10 \o <<"a", "b", "c", "d", "e", "f">>
isdigit(ch) == ch \in ToSet(Chars10)
digit_value(ch) == (CHOOSE i \in 1 .. 16 : Chars16[i] = ch) - 1
base_of(conv) == CASE conv = "o" -> 8 [] conv \in {"x", "X", "p"} -> 16 [] OTHER -> 10
group_of(conv) == IF base_of(conv) = 16 THEN 4 ELSE 3
output_dup(ch, cnt) == [i \in 1 .. (IF cnt > 0 THEN cnt ELSE 0) |-> ch]
-----------------------------------------------------------------------------
RECURSIVE skip(_, _, _)
skip(f, i, chars) == IF f[i] \in chars THEN skip(f, i + 1, chars) ELSE i

\* A number in the format at i, or the next argument for `*'.
number(f, i, args, used) ==
  LET numeral == SubSeq(f, i, skip(f, i, ToSet(Chars10)) - 1)
  IN  IF f[i] = "*" THEN [n |-> args[used + 1], at |-> i + 1, used |-> used + 1]
      ELSE [n |-> FoldLeft(LAMBDA v, ch : v * 10 + digit_value(ch), 0, numeral),
            at |-> i + Len(numeral), used |-> used]

\* The precision, -1 for none, behind the width w.
precision_after(f, args, w) ==
  IF f[w.at] = "." THEN number(f, w.at + 1, args, w.used) ELSE [n |-> -1, at |-> w.at, used |-> w.used]

\* A negative width means `-'; `-' and a precision drop `0', and `+' drops the blank.
flags_with(seen, w, p) ==
  (IF w < 0 THEN seen \union {"-"} ELSE seen)
    \ ((IF "-" \in seen \/ p >= 0 THEN {"0"} ELSE {}) \union (IF "+" \in seen THEN {" "} ELSE {}))

\* The type at place i, and where it ends.
type_at(f, i) ==
  CASE f[i] \in {"h", "l"} /\ f[i + 1] = f[i] -> [type |-> IF f[i] = "h" THEN "hh" ELSE "ll", at |-> i + 2]
    [] f[i] \in {"j", "t", "z"} \/ (f[i] \in {"h", "l"} /\ f[i + 1] # f[i]) -> [type |-> f[i], at |-> i + 1]
    [] OTHER -> [type |-> "int", at |-> i]

specified(seen, w, p, t) ==
  [flags |-> flags_with(seen, w.n, p.n), width |-> IF w.n < 0 THEN -w.n ELSE w.n,
   precision |-> IF p.n < 0 THEN -1 ELSE p.n, type |-> t.type, at |-> t.at, used |-> p.used]

\* parse_conversion: flags, width, precision and type of the conversion at i.
parse_conversion(f, i, args, used) ==
  LET j == skip(f, i, {"-", "+", " ", "#", "0", "'"})
      w == number(f, j, args, used)
      p == precision_after(f, args, w)
  IN  specified({f[k] : k \in i .. j - 1}, w, p, type_at(f, p.at))

\* The digits of value, with a comma after every full group.
RECURSIVE digits(_, _, _, _)
digits(value, conv, grouped, cnt) ==
  IF value = 0 THEN <<>>
  ELSE digits(value \div base_of(conv), conv, grouped, cnt + 1)
         \o <<Chars16[(value % base_of(conv)) + 1]>>
         \o (IF grouped /\ cnt > 0 /\ cnt % group_of(conv) = 0 THEN <<",">> ELSE <<>>)

\* What is in buf in the end: the digits behind the zeros that the precision asks for.
buffer(value, conv, c) ==
  LET d == digits(value, conv, "'" \in c.flags, 0)
      wanted == IF c.precision < 0 THEN 1 ELSE c.precision
      zeros == (IF wanted < BUF_SIZE - 1 THEN wanted ELSE BUF_SIZE - 1) - Len(d)
      full == output_dup("0", zeros) \o d
  IN  IF "#" \in c.flags /\ conv = "o" /\ (full = <<>> \/ full[1] # "0") THEN <<"0">> \o full ELSE full

pad_cnt(c, body, sign, x) == c.width - Len(body) - Len(x) - Len(sign)

format_integer(value, is_signed, negative, conv, c) ==
  LET sign == IF ~is_signed THEN <<>>
              ELSE IF negative THEN <<"-">>
              ELSE IF "+" \in c.flags THEN <<"+">> ELSE IF " " \in c.flags THEN <<" ">> ELSE <<>>
      x == IF "#" \in c.flags /\ value # 0 /\ base_of(conv) = 16
           THEN <<"0", IF conv = "X" THEN "X" ELSE "x">> ELSE <<>>
      body == buffer(value, conv, c)
      pad == pad_cnt(c, body, sign, x)
  IN  (IF c.flags \intersect {"-", "0"} = {} THEN output_dup(" ", pad) ELSE <<>>)
        \o sign \o x \o (IF "0" \in c.flags THEN output_dup("0", pad) ELSE <<>>) \o body
        \o (IF "-" \in c.flags THEN output_dup(" ", pad) ELSE <<>>)

format_string(s, c) ==
  LET pad == output_dup(" ", c.width - Len(s)) IN IF "-" \in c.flags THEN s \o pad ELSE pad \o s

\* The value of an argument in its type.
as_unsigned(v, type) == v % 2 ^ Bits[type]
as_signed(v, type) ==
  LET u == as_unsigned(v, type) IN IF u >= 2 ^ (Bits[type] - 1) THEN u - 2 ^ Bits[type] ELSE u
magnitude(v) == IF v < 0 THEN -v ELSE v

convert(conv, v, c) ==
  CASE conv \in {"d", "i"} ->
         format_integer(magnitude(as_signed(v, c.type)), TRUE, as_signed(v, c.type) < 0, "d", c)
    [] conv \in {"o", "u", "x", "X"} -> format_integer(as_unsigned(v, c.type), FALSE, FALSE, conv, c)
    [] conv = "c" -> format_string(<<v>>, c)
    [] conv = "s" -> format_string(IF c.precision < 0 \/ c.precision > Len(v) THEN v
                                   ELSE SubSeq(v, 1, c.precision), c)
    [] conv = "p" -> format_integer(v, FALSE, FALSE, "p", [c EXCEPT !.flags = {"#"}])

\* The output of conversion c, and where the format goes on.
converted(f, args, c) ==
  IF f[c.at] \in {"d", "i", "o", "u", "x", "X", "c", "s", "p"}
  THEN [out |-> convert(f[c.at], args[c.used + 1], c), at |-> c.at + 1, used |-> c.used + 1]
  ELSE [out |-> <<"<<no conversion>>">>, at |-> c.at + 1, used |-> c.used]

\* The piece of the output that place i of the format gives.
piece(f, i, args, used) ==
  CASE f[i] # "%" -> [out |-> <<f[i]>>, at |-> i + 1, used |-> used]
    [] f[i] = "%" /\ f[i + 1] = "%" -> [out |-> <<"%">>, at |-> i + 2, used |-> used]
    [] OTHER -> converted(f, args, parse_conversion(f, i + 1, args, used))

\* __vprintf from place i of the format on, with `used' arguments taken.
RECURSIVE vprintf(_, _, _, _)
vprintf(f, i, args, used) ==
  LET now == piece(f, i, args, used)
  IN  IF f[i] = NUL THEN <<>> ELSE now.out \o vprintf(f, now.at, args, now.used)

\* At most size - 1 characters are stored, and a null character; the whole length is returned.
vsnprintf(size, f, args) ==
  LET out == vprintf(f, 1, args, 0)
      stored == SubSeq(out, 1, IF Len(out) < size - 1 THEN Len(out) ELSE size - 1)
  IN  <<IF size = 0 THEN <<>> ELSE stored \o <<NUL>>, Len(out)>>

\* hex_dump: a line has an offset and, for every column, a byte or nothing (<<>>).
RECURSIVE hex_dump(_, _)
hex_dump(ofs, buf) ==
  LET start == ofs % per_line
      end == IF per_line - start > Len(buf) THEN start + Len(buf) ELSE per_line
  IN  IF buf = <<>> THEN <<>>
      ELSE <<[ofs |-> ofs - start,
              cells |-> [i \in 0 .. per_line - 1 |-> IF i \in start .. end - 1 THEN <<buf[i - start + 1]>> ELSE <<>>]]>>
             \o hex_dump(ofs + end - start, SubSeq(buf, end - start + 1, Len(buf)))

\* print_human_readable_size: the number and the index of its unit.
RECURSIVE human(_, _)
human(size, unit) == IF size >= KILO /\ unit < 5 THEN human(size \div KILO, unit + 1) ELSE <<size, unit>>
-----------------------------------------------------------------------------
StdioFns == {"printf", "snprintf", "hex_dump", "human"}
Plain == <<"a", "%", "%", "%", "3", "s", "b", "%", "c", "%", "n", NUL>>

StdioInit ==
  \/ fn = "printf" /\ arg \in Conversions
  \/ fn = "snprintf" /\ \E size \in 0 .. 9, s \in {<<>>, <<"s">>, <<"s", "t", "u", "v">>} : arg = <<size, s>>
  \/ fn = "hex_dump" /\ \E ofs \in 0 .. per_line + 1, n \in 0 .. 2 * per_line + 1 : arg = <<ofs, [i \in 1 .. n |-> i]>>
  \/ fn = "human" /\ arg \in (0 .. KILO ^ 3 + 1) \union {KILO ^ 4, KILO ^ 5, KILO ^ 6 - 1}

StdioRun ==
  CASE fn = "printf" -> vprintf(arg.text \o <<NUL>>, 1, arg.args, 0)
    [] fn = "snprintf" -> vsnprintf(arg[1], Plain, <<arg[2], "c">>)
    [] fn = "hex_dump" -> hex_dump(arg[1], arg[2])
    [] fn = "human" -> human(arg, 1)

StdioCall == Answers(StdioFns, StdioRun)
-----------------------------------------------------------------------------
\* What is written reads as the number: spaces, sign, prefix, then digits.
Written(o, base) ==
  FoldLeft(LAMBDA v, ch : v * base + digit_value(ch), 0, SelectSeq(o, LAMBDA ch : ch \in ToSet(Chars16)))

\* The output of an integer conversion, without what fills it up to the width.
IntegerRight(o, r) ==
  LET v == IF r.conv = "d" THEN as_signed(r.value, r.type) ELSE as_unsigned(r.value, r.type)
      left == "-" \in r.flags \/ r.width < 0
      zero == "0" \in r.flags /\ ~left /\ r.precision < 0
      sign == IF r.conv # "d" THEN "" ELSE IF v < 0 THEN "-" ELSE IF "+" \in r.flags THEN "+"
              ELSE IF " " \in r.flags THEN " " ELSE ""
      marks == {i \in DOMAIN o : o[i] \in ToSet(Chars16) \union {"-", "+", "x", "X"}}
      first == IF marks = {} THEN Len(o) + 1 ELSE CHOOSE i \in marks : \A j \in marks : i <= j
      numeral == SelectSeq(o, LAMBDA ch : ch \in ToSet(Chars16))
  IN  \* never shorter than the width, and blanks only on the side the flags say
      /\ Len(o) >= magnitude(r.width)
      /\ Len(o) > magnitude(r.width) => ~\E i \in 1 .. Len(o) : o[i] = " " /\ ~(sign = " " /\ i = 1)
      /\ left => first <= (IF sign = " " THEN 2 ELSE 1) \/ marks = {}
      /\ ~left => o = <<>> \/ o[Len(o)] # " " \/ marks = {}
      /\ zero /\ sign # " " => o = <<>> \/ o[1] # " "
      \* the sign that is due, and the number
      /\ sign \in {"-", "+"} <=> \E i \in DOMAIN o : o[i] \in {"-", "+"} /\ o[i] = sign
      /\ Written(o, base_of(r.conv)) = magnitude(v)
      /\ "'" \notin r.flags => Len(numeral) >= r.precision
      /\ "'" \in r.flags \/ "," \notin ToSet(o)
      /\ \A i \in DOMAIN o : o[i] = "," =>
           Len(SelectSeq(SubSeq(o, i, Len(o)), LAMBDA ch : ch \in ToSet(Chars16))) % group_of(r.conv) = 0
      /\ "#" \in r.flags /\ r.conv = "o" => numeral # <<>> /\ numeral[1] = "0"

\* The one case left out: a negative `*' width sets the flag `-' after `0' was to be dropped
\* for it, and the field is filled on both sides (stdio.c:373-394).
PaddedTwice(r) == "0" \in r.flags /\ "-" \notin r.flags /\ r.width < 0 /\ r.precision < 0

\* printf writes every integer so that it reads back as the value in its type, on the side, with
\* the sign and in the width that were asked for; vsnprintf stays within its size, ends the
\* buffer and returns the whole length; hex_dump shows every byte once, at its address; sizes
\* are rounded down to the largest unit (stdio.c, the comments of the functions).
StdioRight ==
  answer # <<>> /\ fn \in StdioFns =>
    LET a == answer[1]
    IN  CASE fn = "printf" -> PaddedTwice(arg) \/ IntegerRight(a, arg)
          [] fn = "snprintf" ->
               LET all == <<"a", "%">> \o output_dup(" ", 3 - Len(arg[2])) \o arg[2]
                            \o <<"b", "c", "<<no conversion>>">>
               IN  /\ a[2] = Len(all) /\ Len(a[1]) <= arg[1]
                   /\ arg[1] > 0 => /\ Last(a[1]) = NUL /\ IsPrefix(Front(a[1]), all)
                                    /\ Len(a[1]) < arg[1] => Front(a[1]) = all
          [] fn = "hex_dump" ->
               LET shown == {<<a[i].ofs + k, a[i].cells[k]>> : <<i, k>> \in
                               {p \in (DOMAIN a) \X (0 .. per_line - 1) : a[p[1]].cells[p[2]] # <<>>}}
               IN  /\ shown = {<<arg[1] + i - 1, <<arg[2][i]>>>> : i \in DOMAIN arg[2]}
                   /\ \A i \in DOMAIN a : a[i].ofs % per_line = 0 /\ (i > 1 => a[i].ofs = a[i - 1].ofs + per_line)
          [] fn = "human" ->
               LET unit == KILO ^ (a[2] - 1)
               IN  /\ a[1] * unit <= arg /\ arg < (a[1] + 1) * unit
                   /\ a[2] < 5 => a[1] < KILO
                   /\ a[2] > 1 => a[1] >= 1
=============================================================================
