------------------------------- MODULE Loader -------------------------------
(***************************************************************************)
(* The loader of executables (userprog/process.c: load, load_segment,      *)
(* validate_segment, setup_stack), byte by byte.  Byte o of the file is    *)
(* o + 1; a program header is a record.  Frames never run out here: module *)
(* UserMemory is about them.                                               *)
(***************************************************************************)
EXTENDS Calls

LOCAL INSTANCE FiniteSetsExt

CONSTANTS
  PAGE,           \* bytes of a page
  USER_TOP,       \* PHYS_BASE: the first address of the kernel
  ADDRESSES,      \* addresses wrap around here; 2^32 in the code
  FileLength,
  Executables     \* the program headers of the executables that are loaded

page_of(addr) == addr \div PAGE
is_user_vaddr(addr) == addr < USER_TOP
ROUND_UP_PAGE(n) == ((n + PAGE - 1) \div PAGE) * PAGE
smaller(a, b) == IF a < b THEN a ELSE b
-----------------------------------------------------------------------------
validate_segment(ph) ==
  /\ ph.offset % PAGE = ph.vaddr % PAGE
  /\ ph.offset <= FileLength
  /\ ph.memsz >= ph.filesz /\ ph.memsz # 0
  /\ is_user_vaddr(ph.vaddr) /\ is_user_vaddr((ph.vaddr + ph.memsz) % ADDRESSES)
  /\ (ph.vaddr + ph.memsz) % ADDRESSES >= ph.vaddr
  /\ ph.vaddr >= PAGE

Failed == [ok |-> FALSE, mem |-> <<>>]
mapped(mem) == {page_of(x) : x \in DOMAIN mem}

\* Page by page: part of it is read from place ofs of the file, the rest is zeros.  A page that
\* is mapped already is filled again.  mem is a function from addresses to bytes.
RECURSIVE load_segment(_, _, _, _, _)
load_segment(mem, ofs, upage, read_bytes, zero_bytes) ==
  LET page_read_bytes == smaller(read_bytes, PAGE)
      bytes == [x \in upage .. upage + PAGE - 1 |->
                  IF x < upage + page_read_bytes THEN ofs + (x - upage) + 1 ELSE 0]
      filled == [x \in (DOMAIN mem) \union (DOMAIN bytes) |-> IF x \in DOMAIN bytes THEN bytes[x] ELSE mem[x]]
  IN  IF read_bytes = 0 /\ zero_bytes = 0 THEN [ok |-> TRUE, mem |-> mem]
      ELSE IF ofs + page_read_bytes > FileLength /\ page_read_bytes > 0 THEN Failed
      ELSE load_segment(filled, ofs + page_read_bytes, upage + PAGE,
                        read_bytes - page_read_bytes, zero_bytes - (PAGE - page_read_bytes))

loaded(mem, ph) ==
  LET page_offset == ph.vaddr % PAGE
      read_bytes == IF ph.filesz > 0 THEN page_offset + ph.filesz ELSE 0
  IN  load_segment(mem, ph.offset - (ph.offset % PAGE), ph.vaddr - page_offset, read_bytes,
                   ROUND_UP_PAGE(page_offset + ph.memsz) - read_bytes)

\* The stack gets a page of zeros at the top, unless a segment is there.
setup_stack(mem) ==
  LET stack == USER_TOP - PAGE .. USER_TOP - 1
  IN  IF page_of(USER_TOP - PAGE) \in mapped(mem) THEN Failed
      ELSE [ok |-> TRUE, mem |-> [x \in (DOMAIN mem) \union stack |-> IF x \in stack THEN 0 ELSE mem[x]]]

\* load, from header i on: some types are ignored, some make it fail, as a header that cannot
\* be read does.
RECURSIVE load_headers(_, _, _)
load_headers(headers, i, mem) ==
  LET after == loaded(mem, headers[i])
  IN  IF i > Len(headers) THEN setup_stack(mem)
      ELSE CASE headers[i].type = "ignored" -> load_headers(headers, i + 1, mem)
         [] headers[i].type \in {"dynamic", "unreadable"} -> Failed
         [] headers[i].type = "load" ->
                  IF ~validate_segment(headers[i]) THEN Failed
                  ELSE IF after.ok THEN load_headers(headers, i + 1, after.mem) ELSE Failed
-----------------------------------------------------------------------------
LoaderInit == fn = "load" /\ arg \in Executables
LoaderCall == Answers({"load"}, load_headers(arg, 1, <<>>))
-----------------------------------------------------------------------------
\* The pages of a segment, without wrap-around.
SegPages(ph) == page_of(ph.vaddr) .. page_of(ph.vaddr + ph.memsz - 1)
Segments == {i \in DOMAIN arg : arg[i].type = "load"}

\* When an executable starts, every byte of a segment that no later one covers is where the
\* header says, from the file or zero, and only pages of the user, never page 0, are mapped;
\* and one good segment below the stack is always loaded (process.c, the comments of load_segment).
LoadRight ==
  answer # <<>> /\ fn = "load" =>
    LET a == answer[1]
    IN  /\ a.ok => /\ mapped(a.mem) = UNION {SegPages(arg[i]) : i \in Segments} \union {page_of(USER_TOP - PAGE)}
                   /\ mapped(a.mem) \subseteq 1 .. page_of(USER_TOP - 1)
                   /\ \A i \in Segments : \A x \in arg[i].vaddr .. arg[i].vaddr + arg[i].memsz - 1 :
                        (\A j \in Segments : j > i => page_of(x) \notin SegPages(arg[j])) =>
                          a.mem[x] = IF x - arg[i].vaddr < arg[i].filesz
                                     THEN arg[i].offset + (x - arg[i].vaddr) + 1 ELSE 0
        /\ Len(arg) = 1 /\ Segments = {1} =>
             LET ph == arg[1]
             IN  /\ ph.offset % PAGE = ph.vaddr % PAGE /\ ph.filesz \in 1 .. ph.memsz
                 /\ ph.offset + ph.filesz <= FileLength /\ ph.vaddr >= PAGE
                 /\ ph.vaddr + ph.memsz <= USER_TOP - PAGE
                 => a.ok
=============================================================================
