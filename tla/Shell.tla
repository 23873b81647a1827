-------------------------------- MODULE Shell --------------------------------
(***************************************************************************)
(* kernel/kernel.c: the commands of the shell that work on files, over the *)
(* table of module Rmfs.  A command line is split into a command and its   *)
(* arguments beforehand; the usage message of a missing argument changes   *)
(* nothing and is left out.                                                *)
(*                                                                         *)
(* cat, cp, wc and touch read through one staging buffer, exec reads to a  *)
(* fixed address.  Neither is cleared between commands.                    *)
(***************************************************************************)
EXTENDS Rmfs, FiniteSetsExt

CONSTANTS
  Texts,       \* what may be typed as the text of `write`
  BootFiles,   \* the files of kernel_main: a sequence of [name, data]
  Magic,       \* the first bytes of a program, "EOS!"
  NUL, NL      \* the bytes that end a string and a line

ASSUME ShellAssumption ==
  /\ NUL \in Bytes /\ NL \in Bytes /\ NUL # NL
  /\ Texts \subseteq Seq(Bytes \ {NUL})
  /\ \A t \in Texts : Len(t) <= MaxSize     \* a line is shorter than a file
  /\ BootFiles \in Seq([name : Names, data : Seq(Bytes)]) /\ Len(BootFiles) <= MaxFiles
  /\ \A i \in DOMAIN BootFiles :
       /\ valid_name(BootFiles[i].name) /\ Len(BootFiles[i].data) <= MaxSize
       /\ \A j \in DOMAIN BootFiles : BootFiles[i].name = BootFiles[j].name => i = j
  /\ Magic \in Seq(Bytes) /\ Len(Magic) \in 1 .. MaxSize

VARIABLES
  shell_iobuf,   \* the staging buffer, one byte longer than a file
  program,       \* the memory at 0x20000
  said           \* the message of the last command, with what it is about

shellVars == <<files, reply, shell_iobuf, program, said>>

Nothing == [cmd |-> "none", msg |-> "none", name |-> NoName, arg |-> << >>, out |-> << >>]

(* kernel_main: the files of a new system, in the lowest slots.  The other *)
(* memory is what the loader left there.                                   *)
kernel_main ==
  /\ \E blank \in [Slots -> {f \in File : ~f.used /\ f.size = 0 /\ f.name = NoName}] :
       files = [i \in Slots |->
                  IF i < Len(BootFiles)
                    THEN Copied(blank[i], BootFiles[i + 1].name, BootFiles[i + 1].data)
                    ELSE blank[i]]
  /\ reply = NoCall
  /\ shell_iobuf \in [1 .. MaxSize + 1 -> Bytes]
  /\ program \in [1 .. MaxSize -> Bytes]
  /\ said = Nothing

-----------------------------------------------------------------------------
Say(c, m, n, a, o) == said' = [cmd |-> c, msg |-> m, name |-> n, arg |-> a, out |-> o]

Here(n) == files[find(n)]

(* rmfs_read into a buffer: what is behind the file stays.                 *)
Staged(buf, n) == [k \in DOMAIN buf |-> IF k <= Here(n).size THEN Here(n).data[k] ELSE buf[k]]

NotFound(c, n) ==
  /\ Named(n) = {}
  /\ rmfs_read(n, MaxSize)
  /\ Say(c, "no such file", n, << >>, << >>)
  /\ UNCHANGED <<shell_iobuf, program>>

touch(n) ==
  /\ \/ Named(n) # {} /\ rmfs_read(n, 0) /\ Say("touch", "already exists", n, << >>, << >>)
     \/ /\ Named(n) = {}
        /\ rmfs_write(n, << >>)
        /\ Say("touch", IF reply'.ret = 0 THEN "created" ELSE "bad file name", n, << >>, << >>)
  /\ UNCHANGED <<shell_iobuf, program>>

CopyWhole(src, dst) ==   \* a bug: the whole buffer is written, not n bytes
  /\ Named(src) # {}
  /\ shell_iobuf' = Staged(shell_iobuf, src)
  /\ rmfs_write(dst, SubSeq(Staged(shell_iobuf, src), 1, MaxSize))
  /\ Say("cp", IF reply'.ret = 0 THEN "copied" ELSE "copy failed", dst, src, << >>)
  /\ UNCHANGED program

CopyFile(src, dst) ==
  /\ Named(src) # {}
  /\ shell_iobuf' = Staged(shell_iobuf, src)
  /\ rmfs_write(dst, SubSeq(Staged(shell_iobuf, src), 1, Here(src).size))
  /\ Say("cp", IF reply'.ret = 0 THEN "copied" ELSE "copy failed", dst, src, << >>)
  /\ UNCHANGED program

cp(src, dst) == NotFound("cp", src) \/ CopyFile(src, dst)

(* vga_print stops at the first NUL.                                       *)
Printed(buf) ==
  LET ends == {k \in DOMAIN buf : buf[k] = NUL}
  IN  IF ends = {} THEN [k \in DOMAIN buf |-> buf[k]] ELSE SubSeq(buf, 1, Min(ends) - 1)

ShowUnended(n) ==   \* a bug: the staged text is not ended with a NUL
  /\ Named(n) # {}
  /\ shell_iobuf' = Staged(shell_iobuf, n)
  /\ rmfs_read(n, MaxSize)
  /\ Say("cat", "text", n, << >>, Printed(Staged(shell_iobuf, n)))
  /\ UNCHANGED program

ShowFile(n) ==
  /\ Named(n) # {}
  /\ LET buf == [Staged(shell_iobuf, n) EXCEPT ![Here(n).size + 1] = NUL]
     IN  /\ shell_iobuf' = buf
         /\ Say("cat", "text", n, << >>, Printed(buf))
  /\ rmfs_read(n, MaxSize)
  /\ UNCHANGED program

cat(n) == NotFound("cat", n) \/ ShowFile(n)

Lines(text) == Cardinality({k \in DOMAIN text : text[k] = NL})

CountFile(n) ==
  /\ Named(n) # {}
  /\ LET buf == Staged(shell_iobuf, n)
     IN  /\ shell_iobuf' = buf
         /\ Say("wc", "counts", n, << >>,
                <<Lines(SubSeq(buf, 1, Here(n).size)), Here(n).size>>)
  /\ rmfs_read(n, MaxSize)
  /\ UNCHANGED program

wc(n) == NotFound("wc", n) \/ CountFile(n)

(* A result of -2 cannot happen: a command line is shorter than a file.    *)
write(n, t) ==
  /\ rmfs_write(n, t)
  /\ Say("write", CASE reply'.ret = 0  -> "wrote"
                    [] reply'.ret = -1 -> "RMFS full"
                    [] reply'.ret = -2 -> "file too big"
                    [] OTHER           -> "bad file name", n, t, << >>)
  /\ UNCHANGED <<shell_iobuf, program>>

rm(n) ==
  /\ rmfs_rm(n)
  /\ Say("rm", IF reply'.ret = 0 THEN "deleted" ELSE "no such file", n, << >>, << >>)
  /\ UNCHANGED <<shell_iobuf, program>>

(* exec: a file too short to hold the magic counts as none.                *)
StartsMagic(mem) == SubSeq(mem, 1, Len(Magic)) = Magic

RunUnchecked(n) ==   \* a bug: n is compared with 0 and not with 4
  /\ Named(n) # {}
  /\ program' = Staged(program, n)
  /\ rmfs_read(n, MaxSize)
  /\ Say("exec", IF StartsMagic(program') THEN "run" ELSE "bad magic", n, << >>, << >>)
  /\ UNCHANGED shell_iobuf

RunFile(n) ==
  /\ Named(n) # {}
  /\ program' = Staged(program, n)
  /\ rmfs_read(n, MaxSize)
  /\ Say("exec", IF Here(n).size < Len(Magic) THEN "no such file"
                 ELSE IF StartsMagic(program') THEN "run" ELSE "bad magic", n, << >>, << >>)
  /\ UNCHANGED shell_iobuf

exec(n) == NotFound("exec", n) \/ RunFile(n)

shell ==
  \E n \in Names :
    \/ touch(n) \/ cat(n) \/ wc(n) \/ rm(n) \/ exec(n)
    \/ \E t \in Texts : write(n, t)
    \/ \E m \in Names : cp(n, m)

ShellSpec == kernel_main /\ [][shell]_shellVars
-----------------------------------------------------------------------------
Exists(n) == n \in DOMAIN Store
TableFull == Cardinality(DOMAIN Store) = MaxFiles

(* What a command says of the files is true of them: what was created,     *)
(* copied, written or deleted is there or gone, and an error has the cause *)
(* it names.  Two messages say less than they seem to: touch says "bad     *)
(* file name" of a full table too, and exec "no such file" of a short one. *)
(* What exec runs is a file that starts with the magic, whatever an        *)
(* earlier program has left at the address.                                *)
MessagesTrue ==
  LET n == said.name
  IN  CASE said.msg = "created"        -> Exists(n) /\ Store[n] = << >>
        [] said.msg = "already exists" -> Exists(n)
        [] said.msg = "copied"         -> Exists(n) /\ Exists(said.arg)
                                            /\ Store[n] = Store[said.arg]
        [] said.msg = "wrote"          -> Exists(n) /\ Store[n] = said.arg
        [] said.msg = "deleted"        -> ~Exists(n)
        [] said.msg = "no such file"   ->
             ~Exists(n) \/ (said.cmd = "exec" /\ Len(Store[n]) < Len(Magic))
        [] said.msg = "run"            ->
             Len(Store[n]) >= Len(Magic) /\ StartsMagic(Store[n])
        [] said.msg = "RMFS full"      -> ~Exists(n) /\ TableFull
        [] said.msg = "bad file name"  ->
             ~valid_name(n) \/ (said.cmd = "touch" /\ ~Exists(n) /\ TableFull)
        [] said.msg = "copy failed"    -> ~valid_name(n) \/ (~Exists(n) /\ TableFull)
        [] OTHER -> said.msg # "file too big"

(* cat shows the file to its end or its first NUL and wc counts the file,  *)
(* whatever an earlier command has left in the staging buffer.             *)
OutputTrue ==
  /\ said.msg = "text"   => said.out = Printed(Store[said.name])
  /\ said.msg = "counts" =>
       said.out = <<Lines(Store[said.name]), Len(Store[said.name])>>

(* A command changes no file but the one it names as its target, and the   *)
(* commands that fail or only look change none.                            *)
OnlyTargetChanges ==
  [][/\ \A n \in (DOMAIN Store \cup DOMAIN Store') \ {said'.name} :
          Exists(n) /\ n \in DOMAIN Store' /\ Store'[n] = Store[n]
     /\ said'.msg \notin {"created", "copied", "wrote", "deleted"} => Store' = Store]_shellVars
=============================================================================
