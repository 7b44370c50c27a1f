----------------------------- MODULE MCHeaders -----------------------------
(***************************************************************************)
(* Headers as compilers write them, of every layout and with every choice  *)
(* of directories and files, read back by the parser.                      *)
(***************************************************************************)
EXTENDS HeaderLayout

CONSTANTS MaxDirs, MaxFiles     \* in a header; MaxDirs is 2 at most

Name(t, n, o) == [text |-> t, size |-> n, offset |-> o]

DirNames == <<Name("src", 3, 0), Name("ui", 2, 4)>>
FileNames ==
    {Name("a.c", 3, 8), Name("far.c", 5, 150)}
    \cup {Name("n09.c", 9, 30), Name("n10.c", 10, 40), Name("n11.c", 11, 51), Name("n12.c", 12, 63),
          Name("n13.c", 13, 76), Name("n14.c", 14, 90), Name("n15.c", 15, 105)}

V3 == [version |-> 3, form |-> FormString, md5 |-> FALSE, sum |-> 0]
V4 == [V3 EXCEPT !.version = 4]
V5 == [V3 EXCEPT !.version = 5]
V5Checksum(sum) == [V5 EXCEPT !.md5 = TRUE, !.sum = sum]
V5Offsets(sum) == [V5Checksum(sum) EXCEPT !.form = FormLineStrp]

Layouts == {V4, V5, V5Checksum(1), [V5Offsets(1) EXCEPT !.md5 = FALSE], V5Offsets(1)}

\* What a header may have been written from.
DirIndexes(layout, dirs) == IF layout.version = 5 THEN 0 .. Len(dirs) - 1 ELSE 0 .. Len(dirs)

Sources ==
    UNION {{[layout |-> l, dirs |-> d, files |-> f] :
              f \in BoundedSeq([name : FileNames, dir : DirIndexes(l, d)], MaxFiles)} :
            l \in Layouts, d \in {SubSeq(DirNames, 1, n) : n \in 0 .. MaxDirs}}

VARIABLE written    \* what a compiler has written a header from
NothingWritten == [layout |-> V3, dirs |-> <<>>, files |-> <<>>]

WriteHeader == written = NothingWritten /\ written' \in Sources
Forget == written # NothingWritten /\ written' = NothingWritten

-----------------------------------------------------------------------------
header == HeaderOf(written.layout, written.dirs, written.files, ToSet(DirNames) \cup FileNames)
Paths == [i \in DOMAIN written.files |-> PathOf(written.layout, written.dirs, written.files[i])]
Read == Accepted(header) /\ FileTable(header) = Paths

\* A version 5 header with its strings in place is read as it was written,
\* whatever directories, files and checksums it has (parse_v5_directories,
\* parse_v5_file_names).
InPlaceRead == written.layout.version = 5 /\ written.layout.form = FormString => Read

\* One with offsets into __debug_line_str is read as it was written if it has
\* one directory and one file and the offsets are below 128, although the
\* reader takes four bytes for a number of variable length (read_form_string,
\* skip_padding_zeros).
OffsetsRead ==
    /\ written.layout.version = 5 /\ written.layout.form = FormLineStrp
    /\ Len(written.dirs) = 1 /\ Len(written.files) = 1 /\ written.files[1].name.offset < 128
    => Read

\* The first name of a version 4 header that is accepted is the right one,
\* whatever is read behind it (parse_file_names_v4).
FirstNameRead ==
    written.layout.version = 4 /\ written.files # <<>> /\ Accepted(header) =>
        FileTable(header) # <<>> /\ FileTable(header)[1] = Paths[1]

\* A version 4 header of one file is refused.  One of two files is accepted
\* only if its second name, swallowed by the sixteen bytes that are skipped,
\* has a fitting length, and its program is entered where it begins only if
\* that is 9 or 10 (parse_file_names_v4 and the end of parse_line_table).
SecondNameDecides ==
    written.layout.version = 4 =>
        /\ Len(written.files) = 1 => ~ Accepted(header)
        /\ Len(written.files) = 2 =>
             LET second == written.files[2]
             IN  /\ Accepted(header) <=> \/ second.name.size \in {9, 10, 11, 12, 14}
                                         \/ second.name.size = 13 /\ second.dir = 0
                 /\ Accepted(header) => /\ Len(FileTable(header)) = 1
                                        /\ ProgramAt(header) = End(header)
                                             <=> second.name.size \in {9, 10}
=============================================================================
