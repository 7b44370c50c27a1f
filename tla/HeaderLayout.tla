---------------------------- MODULE HeaderLayout ----------------------------
(***************************************************************************)
(* The bytes of a line-number header, as compilers write them: for given   *)
(* directories and files, in the layouts of versions 4 and 5.              *)
(*                                                                         *)
(* A layout is [version, form, md5]: version 5 has its strings in place    *)
(* (FormString) or in __debug_line_str (FormLineStrp), and may have a      *)
(* checksum in each file entry, of which the last byte is sum.             *)
(*                                                                         *)
(* A name is [text, size, offset]: the string, its length, and where it is *)
(* in __debug_line_str.  A file is [name, dir], dir an index.              *)
(***************************************************************************)
EXTENDS LineHeader

\* A byte, with the string that begins there.
Cell(b, t) == <<[byte |-> b, text |-> t]>>
Letter == 9
Inside == "..."         \* a string that begins nowhere a name does

Number(b) == Cell(b, Inside)

Spelled(name) ==
    [i \in 1 .. name.size |->
        [byte |-> Letter, text |-> IF i = 1 THEN name.text ELSE Inside]] \o Number(0)

Offset(name) == Number(name.offset) \o Number(0) \o Number(0) \o Number(0)

Named(layout, name) == IF layout.form = FormString THEN Spelled(name) ELSE Offset(name)

Checksum(layout) == [i \in 1 .. 16 |-> [byte |-> IF i = 16 THEN layout.sum ELSE Letter, text |-> Inside]]

FileCells(layout, f) ==
    IF layout.version = 4 THEN Spelled(f.name) \o Number(f.dir) \o Number(0) \o Number(0)
    ELSE Named(layout, f.name) \o Number(f.dir) \o (IF layout.md5 THEN Checksum(layout) ELSE <<>>)

Cells(layout, dirs, files) ==
    LET each(s, Op(_)) == FlattenSeq([i \in DOMAIN s |-> Op(s[i])])
        fileCells == each(files, LAMBDA f : FileCells(layout, f))
    IN  IF layout.version = 4
        THEN each(dirs, Spelled) \o Number(0) \o fileCells \o Number(0)
        ELSE Number(1) \o Number(TypePath) \o Number(layout.form) \o Number(Len(dirs))
             \o each(dirs, LAMBDA d : Named(layout, d))
             \o Number(IF layout.md5 THEN 3 ELSE 2)
             \o Number(TypePath) \o Number(layout.form)
             \o Number(TypeDirectory) \o Number(FormUdata)
             \o (IF layout.md5 THEN Number(TypeMD5) \o Number(FormData16) ELSE <<>>)
             \o Number(Len(files)) \o fileCells

\* __debug_line_str, as far as these names are in it.
Strings(names) ==
    [i \in 1 .. Max({name.offset + name.size : name \in names}) + 1 |->
        IF \E name \in names : name.offset + 1 = i
        THEN (CHOOSE name \in names : name.offset + 1 = i).text ELSE Inside]

HeaderOf(layout, dirs, files, names) ==
    LET cells == Cells(layout, dirs, files)
    IN  [version |-> layout.version,
         bytes |-> [i \in DOMAIN cells |-> cells[i].byte],
         text |-> [i \in DOMAIN cells |-> cells[i].text],
         strs |-> Strings(names)]

\* The paths it gives files: version 4 counts directories from 1, and 0 is the
\* one the compiler ran in.
PathOf(layout, dirs, f) ==
    <<IF layout.version = 5 THEN dirs[f.dir + 1].text
      ELSE IF f.dir = 0 THEN "" ELSE dirs[f.dir].text,
      f.name.text>>
=============================================================================
