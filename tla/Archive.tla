------------------------------ MODULE Archive ------------------------------
(***************************************************************************)
(* Archives in the format of ustar.  An octet is a small number; the       *)
(* fields of a header (lib/ustar.c) are short, and those that nobody reads *)
(* are left out.                                                           *)
(*                                                                         *)
(* The archive on the scratch device (filesys/fsutil.c): append writes     *)
(* files to it, and extract, which a later boot runs, reads them.  Either  *)
(* is the only thing that runs, so it is one step.                         *)
(***************************************************************************)
EXTENDS Calls, SequencesExt

CONSTANTS
  NameSize,      \* octets of the name in a header; 100 in the code
  FieldSize,     \* octets of an octal field; 8 and 12 in the code
  LongMax        \* what fits in the number that is parsed

NULCH == 0   SPACECH == 1   SLASH == 11   DOT == 12
digit(d) == d + 2
typeflag == 20   magic == 21
ChksumPlace == NameSize + FieldSize
HeaderSize == NameSize + 2 * FieldSize + 2

\* A loop that makes n rounds: turn[k][x] is what the k-th one makes of x.
Rounds(turn, x, n) ==
  LET at[k \in 0 .. n] == IF k = 0 THEN x ELSE turn[k][at[k - 1]]
  IN  at[n]
-----------------------------------------------------------------------------
\* The rest of a name behind its first slash.
behind_slash(s) == SubSeq(s, (CHOOSE i \in DOMAIN s : s[i] = SLASH /\ \A j \in 1 .. i - 1 : s[j] # SLASH) + 1, Len(s))

antisocial(s) ==
  \/ Len(s) >= 1 /\ s[1] = SLASH
  \/ Len(s) >= 2 /\ s[1] = DOT /\ s[2] = SLASH
  \/ Len(s) >= 3 /\ s[1] = DOT /\ s[2] = DOT /\ s[3] = SLASH

strip_antisocial_prefixes(s) ==
  LET stripped == Rounds([k \in 1 .. Len(s) |-> [t \in Seq(Nat) |-> IF antisocial(t) THEN behind_slash(t) ELSE t]],
                        s, Len(s))
  IN  IF stripped \in {<<>>, <<DOT, DOT>>} THEN <<DOT>> ELSE stripped

padded(s, n) == s \o [i \in 1 .. n - Len(s) |-> NULCH]

\* v without its last n octal digits.
shifted(v, n) == Rounds([k \in 1 .. n |-> [q \in Nat |-> q \div 8]], v, n)

\* snprintf of "%0*o": n digits.
octal(v, n) == [k \in 1 .. n |-> digit(shifted(v, n - k) % 8)]
field(v) == octal(v, FieldSize - 1) \o <<NULCH>>

in_chksum_field(i) == i \in ChksumPlace + 1 .. ChksumPlace + FieldSize
calculate_chksum(h) ==
  Rounds([i \in DOMAIN h |-> [sum \in Nat |-> sum + (IF in_chksum_field(i) THEN SPACECH ELSE h[i])]], 0, Len(h))

\* The header of a regular file; <<>> for a name that is too long.
ustar_make_header(name, size) ==
  LET s == strip_antisocial_prefixes(name)
      before == padded(s, NameSize) \o field(size)   after == <<typeflag, magic>>
      blank == before \o [i \in 1 .. FieldSize |-> NULCH] \o after
  IN  IF Len(s) > NameSize - 1 THEN <<>> ELSE before \o field(calculate_chksum(blank)) \o after

\* The value of an octal field, or -1.
is_digit(c) == c \in {digit(d) : d \in 0 .. 7}
lowest(S) == CHOOSE i \in S : \A j \in S : i <= j
parse_octal_field(s) ==
  LET ends == {i \in DOMAIN s : ~is_digit(s[i])}
      value(n) == Rounds([i \in 1 .. n |-> [v \in Int |-> IF v = -1 \/ v > LongMax \div 8 THEN -1
                                                         ELSE s[i] - digit(0) + v * 8]], 0, n)
  IN  IF ends # {} /\ lowest(ends) > 1 /\ s[lowest(ends)] \in {SPACECH, NULCH} THEN value(lowest(ends) - 1) ELSE -1

ustar_parse_header(h) ==
  LET size == parse_octal_field(SubSeq(h, NameSize + 1, ChksumPlace))
      chksum == parse_octal_field(SubSeq(h, ChksumPlace + 1, ChksumPlace + FieldSize))
      name == SubSeq(h, 1, lowest({i \in DOMAIN h : h[i] = NULCH}) - 1)
  IN  CASE \A i \in DOMAIN h : h[i] = NULCH -> [type |-> "eof"]
        [] OTHER ->
           IF \/ h[HeaderSize] # magic \/ chksum = -1 \/ chksum # calculate_chksum(h)
              \/ h[NameSize] # NULCH \/ h[HeaderSize - 1] # typeflag \/ size = -1
           THEN [type |-> "error"]
           ELSE [type |-> "file", name |-> strip_antisocial_prefixes(name), size |-> size]
-----------------------------------------------------------------------------
FileNames == UNION {[1 .. n -> {SLASH, DOT, 13}] : n \in 0 .. NameSize + 1}
FileSizes == {0, 7, 8, 63}
UstarInit == fn = "ustar_header" /\ arg \in FileNames \X FileSizes

\* A header is made and parsed, and parsed again with every octet of it changed.
UstarRun ==
  LET h == ustar_make_header(arg[1], arg[2])
  IN  IF h = <<>> THEN [made |-> FALSE, name |-> strip_antisocial_prefixes(arg[1])]
      ELSE [made |-> TRUE, name |-> strip_antisocial_prefixes(arg[1]), read |-> ustar_parse_header(h),
            changed |-> {ustar_parse_header([h EXCEPT ![i] = x]) :
                           i \in DOMAIN h, x \in {NULCH, SPACECH, digit(0), digit(7), SLASH}}]

UstarCall == Answers({"ustar_header"}, UstarRun)

\* A header reads back as it was made, and with any octet changed it is refused or reads the
\* same: the checksum covers every octet; no name leads out of the directory (ustar.c).
UstarRight ==
  answer # <<>> /\ fn = "ustar_header" =>
    LET a == answer[1]   s == a.name   read == [type |-> "file", name |-> s, size |-> arg[2]]
    IN  /\ s # <<>> /\ s[1] # SLASH /\ s # <<DOT, DOT>>
        /\ ~IsPrefix(<<DOT, DOT, SLASH>>, s) /\ ~IsPrefix(<<DOT, SLASH>>, s)
        /\ a.made <=> Len(s) < NameSize
        /\ a.made => a.read = read /\ a.changed \subseteq {read, [type |-> "error"]}
-----------------------------------------------------------------------------
CONSTANTS
  ScratchSize,   \* sectors of the scratch device
  Archived,      \* the files that may be appended: [name, chunks]
  OldSectors      \* what a sector may hold before

VARIABLES
  scratch,        \* the sectors: a header, a chunk of data or zeros
  append_sector, extract_sector,   \* the two static counters; a boot resets them
  disk_files,     \* the file system: a set of [name, chunks]
  appended,       \* what extract ought to find in the archive, while it is intact
  intact,         \* no append has run out of space since the archive was begun
  panicked

archiveVars == <<scratch, append_sector, extract_sector, disk_files, appended, intact, panicked>>

zeros == [i \in 1 .. HeaderSize |-> NULCH]

\* v has FieldSize - 1 octal digits, and a parsed number has room for it.
Fits(v) == v \in 0 .. LongMax /\ shifted(v, FieldSize - 1) = 0

\* The largest octet is `magic'; a name is a C string, and a size is an int.
ASSUME ArchiveAssumption ==
  /\ NameSize \in Nat \ {0} /\ FieldSize \in Nat \ {0, 1} /\ LongMax \in Nat /\ ScratchSize \in Nat \ {0}
  /\ Fits(magic * HeaderSize)
  /\ \A f \in Archived : f.name \in Seq(1 .. magic) /\ f.chunks \in Seq(Seq(Nat)) /\ Fits(Len(f.chunks))
-----------------------------------------------------------------------------
\* Mutant: the end of the archive is not marked.
no_marker(dev, s) == dev

\* The marker, two sectors of zeros, is written to one sector twice.
end_marker(dev, s) == [dev EXCEPT ![s] = zeros]

\* fsutil_append: the header, the data, the marker; the counter stays at the marker.
AppendFile(f) ==
  LET n == Len(f.chunks)   s == append_sector
      header == ustar_make_header(f.name, n)
      written == [k \in DOMAIN scratch |-> IF k = s THEN header
                    ELSE IF k \in s + 1 .. s + n THEN f.chunks[k - s] ELSE scratch[k]]
      fits == s + n + 1 < ScratchSize
  IN  /\ ~panicked
      /\ \/ /\ header = <<>>
            /\ panicked' = TRUE
            /\ UNCHANGED <<scratch, append_sector, appended, intact>>
         \/ /\ header # <<>> /\ ~fits
            /\ panicked' = TRUE /\ scratch' = written /\ intact' = FALSE
            /\ appended' = <<>>
            /\ UNCHANGED append_sector
         \/ /\ header # <<>> /\ fits
            /\ scratch' = end_marker(written, s + n + 1)
            /\ append_sector' = s + n + 1
            /\ intact' = (s = 0 \/ intact)
            /\ appended' = (IF s = 0 THEN <<>> ELSE appended)
                           \o <<[name |-> strip_antisocial_prefixes(f.name), chunks |-> f.chunks]>>
            /\ UNCHANGED panicked
      /\ UNCHANGED <<extract_sector, disk_files>>

\* A turn of the loop of fsutil_extract, which puts a file, finds the marker or panics.
ArchiveFiles == [name : Seq(Nat), chunks : Seq(Seq(Nat))]
Walks == [files : SUBSET ArchiveFiles, at : Nat, state : {"more", "done", "panic"}]
put_file(w) ==
  LET s == w.at
      h == IF s < ScratchSize THEN ustar_parse_header(scratch[s]) ELSE [type |-> "error"]
      f == [name |-> h.name, chunks |-> [i \in 1 .. h.size |-> IF s + i < ScratchSize THEN scratch[s + i] ELSE zeros]]
  IN  IF w.state # "more" THEN w
      ELSE IF h.type = "eof" THEN [files |-> w.files, at |-> s + 1, state |-> "done"]
      ELSE IF h.type = "error" \/ \E g \in w.files : g.name = h.name
           THEN [files |-> w.files, at |-> s + 1, state |-> "panic"]
      ELSE IF s + h.size >= ScratchSize THEN [files |-> w.files \union {f}, at |-> ScratchSize, state |-> "panic"]
      ELSE [files |-> w.files \union {f}, at |-> s + h.size + 1, state |-> "more"]

\* Bound: every turn but the last takes a sector.
extracted(files) ==
  Rounds([k \in 1 .. ScratchSize + 1 |-> [w \in Walks |-> put_file(w)]],
        [files |-> files, at |-> 0, state |-> "more"], ScratchSize + 1)

\* fsutil_extract, before any append of this boot (fsutil.c:164): the archive is erased after it.
Extract ==
  LET e == extracted(disk_files)   bad == e.state = "panic"
  IN  /\ ~panicked /\ append_sector = 0 /\ extract_sector = 0
      /\ disk_files' = e.files /\ extract_sector' = e.at /\ panicked' = bad
      /\ IF bad THEN UNCHANGED <<scratch, appended, intact>>
         ELSE /\ scratch' = [scratch EXCEPT ![0] = zeros, ![1] = zeros]
              /\ appended' = <<>> /\ intact' = TRUE
      /\ UNCHANGED append_sector

\* A new boot, perhaps with a file system that has been formatted.
Boot ==
  /\ append_sector' = 0 /\ extract_sector' = 0 /\ panicked' = FALSE
  /\ disk_files' \in {disk_files, {}}
  /\ UNCHANGED <<scratch, appended, intact>>

ArchiveInit ==
  /\ scratch \in [0 .. ScratchSize - 1 -> OldSectors] /\ scratch[0] = zeros
  /\ append_sector = 0 /\ extract_sector = 0 /\ disk_files = {} /\ appended = <<>>
  /\ intact = TRUE /\ panicked = FALSE

ArchiveNext == (\E f \in Archived : AppendFile(f)) \/ Extract \/ Boot

ArchiveSpec == ArchiveInit /\ [][ArchiveNext]_archiveVars
-----------------------------------------------------------------------------
\* What was appended is there to be extracted, and nothing else, whatever the device held
\* before and however often it was extracted and written again: a walk over the archive meets
\* the files in order and then the marker (fsutil.c, the comments of the two functions).
ArchiveHolds ==
  LET e == extracted({})
  IN  intact /\ (\A i, j \in DOMAIN appended : appended[i].name = appended[j].name => i = j) =>
        e.state = "done" /\ e.files = {appended[i] : i \in DOMAIN appended}
=============================================================================
