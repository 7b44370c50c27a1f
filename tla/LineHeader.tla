----------------------------- MODULE LineHeader -----------------------------
(***************************************************************************)
(* The header of a line-number unit as parse_line_table reads it: which    *)
(* directories and file names it finds, whether it accepts the header, and *)
(* where it takes the line-number program to begin.                        *)
(*                                                                         *)
(* A header is [version, bytes, text, strs]: bytes are those behind the    *)
(* lengths of the standard opcodes, to the end of the prologue; text[p] is *)
(* the string that begins at byte p, strs[o + 1] the one at offset o of    *)
(* __debug_line_str.  What the characters are does not matter, only where  *)
(* a string ends.                                                          *)
(*                                                                         *)
(* A cursor is a position in bytes; End is behind the last one.  Numbers   *)
(* are not cut to 64 bits: none is compared with anything so large.        *)
(***************************************************************************)
EXTENDS Integers, SequencesExt, FiniteSets

Byte == 0 .. 255

\* DW_LNCT_* and DW_FORM_*
TypePath == 1
TypeDirectory == 2
TypeMD5 == 5
FormString == 8
FormUdata == 15
FormData16 == 30
FormLineStrp == 31

-----------------------------------------------------------------------------
(* The cursor                                                              *)

End(h) == Len(h.bytes) + 1
AtMostEnd(h, p) == IF p < End(h) THEN p ELSE End(h)

\* read_u8: 0 at the end, and the cursor stays.
ByteAt(h, p) == IF p \in DOMAIN h.bytes THEN h.bytes[p] ELSE 0
AfterByte(h, p) == AtMostEnd(h, p + 1)

\* read_uleb128: up to ten bytes, the last one below 128.
UlebSize(h, p) == Cardinality({i \in 0 .. 9 : \A j \in 0 .. i - 1 : ByteAt(h, p + j) >= 128})
UlebAt(h, p) ==
    LET n == UlebSize(h, p)
        V[i \in 0 .. n] == IF i = 0 THEN 0 ELSE 128 * V[i - 1] + (ByteAt(h, p + n - i) % 128)
    IN  V[n]
AfterUleb(h, p) == AtMostEnd(h, p + UlebSize(h, p))

\* Mutation: the terminator is left for the next read.
AfterTextOpen(h, p) ==
    Min({End(h)} \cup {q \in DOMAIN h.bytes : q >= p /\ h.bytes[q] = 0})

\* read_cstr
TextAt(h, p) == IF ByteAt(h, p) = 0 THEN "" ELSE h.text[p]
AfterText(h, p) ==
    Min({End(h)} \cup {q + 1 : q \in {r \in DOMAIN h.bytes : r >= p /\ h.bytes[r] = 0}})

\* lookup_line_str
LineStr(h, offset) == IF offset + 1 \in DOMAIN h.strs THEN h.strs[offset + 1] ELSE ""

\* Mutation: nothing is skipped.
AfterNoZeros(h, p) == AtMostEnd(h, p)

\* skip_padding_zeros
AfterZeros(h, p) == Min({End(h)} \cup {q \in DOMAIN h.bytes : q >= p /\ h.bytes[q] # 0})

-----------------------------------------------------------------------------
(* Version 4                                                               *)

\* Where the n-th of the strings from p on ends.
StringEnds(h, p) == LET D[n \in Nat] == IF n = 0 THEN p ELSE AfterText(h, D[n - 1]) IN D

\* Mutation: the time and the length are read as what they are.
FileEndsWhole(h, p) ==
    LET F[n \in Nat] == IF n = 0 THEN p
                        ELSE AfterUleb(h, AfterUleb(h, AfterUleb(h, AfterText(h, F[n - 1]))))
    IN  F

\* Where the n-th file entry ends: behind the directory index are its time and
\* its length, two numbers of a byte or more, but 16 bytes are skipped.
FileEnds(h, p) ==
    LET F[n \in Nat] == IF n = 0 THEN p ELSE AfterUleb(h, AfterText(h, F[n - 1])) + 16 IN F

\* How many strings there are at P[0], P[1], ... before an empty one or the end.
Texts(h, P) ==
    Cardinality({n \in 0 .. Len(h.bytes) : \A m \in 0 .. n : ByteAt(h, P[m]) # 0})

\* The include_directories behind the compilation directory end at D, then the
\* entries of parse_file_names_v4 at F.
NamesV4(h, D, F) ==
    LET named == 1 .. Texts(h, F)
    IN  [ok    |-> \A i \in named : F[i] <= End(h),
         dirs  |-> <<"">> \o [i \in 1 .. Texts(h, D) |-> TextAt(h, D[i - 1])],
         files |-> [i \in named |-> [dir  |-> UlebAt(h, AfterText(h, F[i - 1])),
                                     name |-> TextAt(h, F[i - 1])]],
         next  |-> AfterText(h, F[Texts(h, F)])]

FilesV4(h, D) == NamesV4(h, D, FileEnds(h, AfterText(h, D[Texts(h, D)])))
ReadV4(h) == FilesV4(h, StringEnds(h, 1))

-----------------------------------------------------------------------------
(* Version 5                                                               *)

\* read_format_descriptors: which values an entry has.
FormatEnds(h, p) ==
    LET P[n \in Nat] == IF n = 0 THEN AfterByte(h, p) ELSE AfterUleb(h, P[n - 1]) IN P

FormatsAt(h, P, count) ==
    [of   |-> [d \in 1 .. count |->
                  [type |-> UlebAt(h, P[2 * d - 2]), form |-> UlebAt(h, P[2 * d - 1])]],
     next |-> P[2 * count]]

Formats(h, p) == FormatsAt(h, FormatEnds(h, p), ByteAt(h, p))

\* read_form_string, skip_form_value: what is accepted of which form, and where
\* it ends.  A DW_FORM_line_strp is read as a number of variable length; the
\* four bytes of an offset below 128 are one such number and three zeros.
Readable(h, p, f) ==
    \/ f.form = FormString
    \/ f.form = FormLineStrp /\ (f.type = TypePath => p < End(h))
    \/ f.form = FormUdata /\ f.type # TypePath
    \/ f.form = FormData16 /\ f.type # TypePath /\ p + 16 <= End(h)

AfterForm(h, p, form) ==
    CASE form \in {FormUdata, FormLineStrp} -> AfterUleb(h, p)
      [] form = FormString -> AfterText(h, p)
      [] OTHER -> p + 16

StringOf(h, p, form) ==
    IF form = FormString THEN TextAt(h, p) ELSE LineStr(h, UlebAt(h, p))

\* Where the k-th of the values from p on ends, entry after entry.
ValueEnds(h, formats, p) ==
    LET n == Len(formats)
        V[k \in Nat] == IF k = 0 THEN p
                        ELSE AfterForm(h, V[k - 1], formats[((k - 1) % n) + 1].form)
    IN  V

\* The entry that begins behind the k-th value; of several values of one type
\* the last counts.
EntryBehind(h, formats, V, k) ==
    LET paths == {d \in DOMAIN formats : formats[d].type = TypePath}
        indexes == {d \in DOMAIN formats : /\ formats[d].type = TypeDirectory
                                           /\ formats[d].form = FormUdata}
    IN  [dir  |-> IF indexes = {} THEN 0 ELSE UlebAt(h, V[k + Max(indexes) - 1]),
         name |-> IF paths = {} THEN ""
                  ELSE StringOf(h, V[k + Max(paths) - 1], formats[Max(paths)].form)]

\* The loops of parse_v5_directories and parse_v5_file_names.
EntriesAt(h, formats, count, V) ==
    LET n == Len(formats)
    IN  [ok   |-> \A k \in 1 .. count * n :
                      Readable(h, V[k - 1], formats[((k - 1) % n) + 1]),
         of   |-> [i \in 1 .. count |-> EntryBehind(h, formats, V, (i - 1) * n)],
         next |-> V[count * n]]

EntriesOf(h, f) ==
    IF f.of = <<>> THEN [ok |-> TRUE, of |-> <<>>, next |-> f.next]
    ELSE EntriesAt(h, f.of, UlebAt(h, f.next), ValueEnds(h, f.of, AfterUleb(h, f.next)))

Entries(h, p) == EntriesOf(h, Formats(h, p))

\* Zeros behind the directories are skipped if there is a format for them.
NamesV5(dirs, files) ==
    [ok    |-> dirs.ok /\ files.ok,
     dirs  |-> [i \in DOMAIN dirs.of |-> dirs.of[i].name],
     files |-> files.of,
     next  |-> files.next]

FilesV5(h, dirs) ==
    NamesV5(dirs, Entries(h, IF ByteAt(h, 1) = 0 THEN dirs.next ELSE AfterZeros(h, dirs.next)))
ReadV5(h) == FilesV5(h, Entries(h, 1))

-----------------------------------------------------------------------------
(* Both                                                                    *)

ReadHeader(h) == IF h.version = 5 THEN ReadV5(h) ELSE ReadV4(h)

\* Mutation: the compilation directory has no place in the directory table.
PathsOfShort(read) ==
    [i \in DOMAIN read.files |->
       <<IF read.files[i].dir \in DOMAIN read.dirs
         THEN read.dirs[read.files[i].dir] ELSE "",
         read.files[i].name>>]

\* What build_file_path makes of a file index.  Item 0 of the file table is a
\* dummy, so index i is the i-th entry of the header, whatever the version
\* counts from.
PathsOf(read) ==
    [i \in DOMAIN read.files |->
       <<IF read.files[i].dir + 1 \in DOMAIN read.dirs
         THEN read.dirs[read.files[i].dir + 1] ELSE "",
         read.files[i].name>>]

FileTable(h) == PathsOf(ReadHeader(h))

Accepted(h) == ReadHeader(h).ok

\* Where parse_line_table has the program begin: it begins at End.
ProgramAt(h) == IF h.version = 5 THEN End(h) - 1 ELSE ReadHeader(h).next
=============================================================================
