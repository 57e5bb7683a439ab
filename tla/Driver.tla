------------------------------- MODULE Driver -------------------------------
(***************************************************************************)
(* The compiler's main (main.c): the command line, the files it names, the *)
(* stages of the compilation, each of which may stop the program, and gcc  *)
(* in a child process.  What the stages compute is the subject of the      *)
(* other modules: here they come to an end, or do not, in each way theirs  *)
(* can.  A path is the sequence of its pieces, with "." and "/" as pieces  *)
(* of their own; the arguments on the command line are paths, or options   *)
(* of one piece.                                                           *)
(***************************************************************************)
EXTENDS Integers, Sequences, FiniteSetsExt

CONSTANT CommandLines  \* the arguments, without the program's name

ASSUME CommandLinesAssumption == CommandLines \subseteq Seq(Seq(STRING) \ {<<>>})

NULL == <<>>
Options == {"-S", "-o", "-x"}
Absent == <<"absent">>

VARIABLES
  argv, i,  \* the command line, and the argument to be read
  args,     \* cli_args_t
  files,    \* the contents of the file at each path: Absent, <<"old", path>> if
            \* it was there before, or an assembly file or an executable with what
            \* it was made from, or a part of one
  text,     \* what was read from the input
  asm_path, exe_path,
  lost,     \* some of what was written to the assembly file is lost: the disk
            \* is full, and neither fprintf's result nor fclose's is looked at
  child,    \* "none", "running", or how gcc ended
  rc,       \* the exit status, or Unknown
  phase     \* where main is

vars == <<argv, i, args, files, text, asm_path, exe_path, lost, child, rc, phase>>
fixed == <<argv, i, args>>
paths == <<asm_path, exe_path>>

EXIT_SUCCESS == 0
EXIT_FAILURE == 1
Unknown == -1
Killed == 128  \* or more: killed by a signal, as a shell sees it

-----------------------------------------------------------------------------
(* Paths *)

Dots(path) == {k \in DOMAIN path : path[k] = "."}

\* Mutant: the first dot, as strchr finds it.
swap_extension_first(path, ext) ==
  SubSeq(path, 1, IF Dots(path) = {} THEN Len(path) ELSE Min(Dots(path)) - 1) \o ext

swap_extension(path, ext) ==
  SubSeq(path, 1, IF Dots(path) = {} THEN Len(path) ELSE Max(Dots(path)) - 1) \o ext

DotS == <<".", "s">>
AOut == <<"a", ".", "out">>

AsmPath(a) ==
  IF a.mode = "MODE_ASM_ONLY" /\ a.output # NULL THEN a.output ELSE swap_extension(a.input, DotS)

\* Mutant: an executable named like its source.
ExePath_named(a) == IF a.output # NULL THEN a.output ELSE swap_extension(a.input, <<>>)
ExePath(a) == IF a.output # NULL THEN a.output ELSE AOut

-----------------------------------------------------------------------------
(* The command line *)

Stop(status) ==
  /\ rc' = status
  /\ phase' = "ended"

Go(next) ==
  /\ phase' = next
  /\ UNCHANGED rc

Read(k, a) ==
  /\ i' = k
  /\ args' = a
  /\ UNCHANGED <<rc, phase>>

parse_cli_args ==
  /\ phase = "args" /\ i <= Len(argv)
  /\ LET arg == argv[i]
     IN \/ arg = <<"-S">> /\ Read(i + 1, [args EXCEPT !.mode = "MODE_ASM_ONLY"])
        \/ arg = <<"-o">> /\ i < Len(argv) /\ Read(i + 2, [args EXCEPT !.output = argv[i + 1]])
        \/ arg[1] \notin Options /\ args.input = NULL /\ Read(i + 1, [args EXCEPT !.input = arg])
        \/ /\ \/ arg = <<"-o">> /\ i = Len(argv)
              \/ arg[1] \in Options \ {"-S", "-o"}
              \/ arg[1] \notin Options /\ args.input # NULL
           /\ Stop(EXIT_FAILURE) /\ UNCHANGED <<i, args>>
  /\ UNCHANGED <<argv, files, text, paths, lost, child>>

Readable == args.input # NULL /\ files[args.input] # Absent

\* The input is opened and read, and the paths are settled.
OpenInput ==
  /\ phase = "args" /\ i > Len(argv)
  /\ Readable
  /\ text' = files[args.input]
  /\ asm_path' = AsmPath(args)
  /\ exe_path' = IF args.mode = "MODE_EXECUTABLE" THEN ExePath(args) ELSE NULL
  /\ Go("tokenize")
  /\ UNCHANGED <<fixed, files, lost, child>>

NoInput ==
  /\ phase = "args" /\ i > Len(argv)
  /\ ~Readable
  /\ Stop(EXIT_FAILURE)
  /\ UNCHANGED <<fixed, files, text, paths, lost, child>>

-----------------------------------------------------------------------------
(* The compilation *)

\* exit(1) at an error of the program's, or a signal: an assertion that does
\* not hold, memory that is not there.
Failed == Stop(EXIT_FAILURE) \/ Stop(Killed)

\* The stages before the assembly file is opened; the tokenizer may go on for
\* ever (at a number with a fraction).
Frontend ==
  /\ \/ phase = "tokenize" /\ (Go("parse") \/ Go("hung"))
     \/ phase = "parse" /\ Go("print")
     \/ phase = "print" /\ Go("asm_init")
     \/ phase \in {"tokenize", "parse", "print"} /\ Failed
  /\ UNCHANGED <<fixed, files, text, paths, lost, child>>

\* fopen(asm_path, "w") empties the file.  When it fails, the first line
\* written to it is written through NULL.
asm_init ==
  /\ phase = "asm_init"
  /\ \/ files' = [files EXCEPT ![asm_path] = <<"part", text>>] /\ Go("gen_program")
     \/ Stop(Killed) /\ UNCHANGED files
  /\ UNCHANGED <<fixed, text, paths, lost, child>>

AfterCompile == IF args.mode = "MODE_EXECUTABLE" THEN Go("fork") ELSE Stop(EXIT_SUCCESS)

\* Mutant: a compile error in the generator does not stop the compiler.
GenError_goes_on == AfterCompile
GenError == Failed

\* gen_program and asm_free.  What was written before an error stays.
gen_program ==
  /\ phase = "gen_program"
  /\ \/ /\ AfterCompile
        /\ files' = [files EXCEPT ![asm_path] = <<"asm", text>>]
        /\ UNCHANGED lost
     \/ /\ AfterCompile
        /\ lost' = TRUE
        /\ UNCHANGED files
     \/ GenError /\ UNCHANGED <<files, lost>>
  /\ UNCHANGED <<fixed, text, paths, child>>

-----------------------------------------------------------------------------
(* run_assembler_and_linker *)

fork ==
  /\ phase = "fork"
  /\ \/ child' = "running" /\ Go("waitpid")
     \/ Stop(EXIT_FAILURE) /\ UNCHANGED child
  /\ UNCHANGED <<fixed, files, text, paths, lost>>

\* The child: execlp fails, or gcc ends.  gcc refuses to write its input;
\* when it fails or is killed it may have removed the output or left a part.
Ends(how, contents) ==
  /\ child' = how
  /\ files' = [files EXCEPT ![exe_path] = contents]
  /\ UNCHANGED <<fixed, text, paths, lost, rc, phase>>

gcc ==
  /\ child = "running"
  /\ \/ Ends("exit 127", files[exe_path])
     \/ Ends("exit 1", files[exe_path])
     \/ Ends("signal", files[exe_path])
     \/ /\ exe_path # asm_path
        /\ \/ Ends("exit 0", <<"exe", files[asm_path]>>)
           \/ Ends("exit 1", Absent)
           \/ \E c \in {Absent, <<"part", files[asm_path]>>} : Ends("signal", c)

\* Mutant: WEXITSTATUS of a child that was killed is 0.
Succeeded_unless_exit == child \in {"exit 0", "signal"}
Succeeded == child = "exit 0"

\* waitpid fails when the program was started with SIGCHLD ignored; it has
\* waited for the child all the same.
waitpid ==
  /\ phase = "waitpid" /\ child # "running"
  /\ \/ Succeeded /\ Stop(EXIT_SUCCESS)
     \/ ~Succeeded /\ Stop(EXIT_FAILURE)
     \/ Stop(EXIT_FAILURE)
  /\ UNCHANGED <<fixed, files, text, paths, lost, child>>

-----------------------------------------------------------------------------
\* The paths a command line may come to mean.
Words(line) == {line[k] : k \in DOMAIN line}
Path(line) ==
  {AOut} \cup Words(line)
  \cup {swap_extension(word, ext) : word \in Words(line), ext \in {DotS, NULL}}

\* Files that may be there before: those it names, and those it will write.
Before(line) ==
  {AOut} \cup Words(line) \cup {swap_extension(word, DotS) : word \in Words(line)}

Init ==
  /\ argv \in CommandLines
  /\ i = 1
  /\ args = [mode |-> "MODE_EXECUTABLE", input |-> NULL, output |-> NULL]
  /\ \E there \in SUBSET Before(argv) :
       files = [path \in Path(argv) |-> IF path \in there THEN <<"old", path>> ELSE Absent]
  /\ text = NULL /\ asm_path = NULL /\ exe_path = NULL
  /\ lost = FALSE
  /\ child = "none"
  /\ rc = Unknown
  /\ phase = "args"

main == parse_cli_args \/ OpenInput \/ NoInput \/ Frontend \/ asm_init \/ gen_program \/ fork \/ waitpid

Terminated == phase \in {"ended", "hung"} /\ UNCHANGED vars

Next == main \/ gcc \/ Terminated

Spec == Init /\ [][Next]_vars
=============================================================================
