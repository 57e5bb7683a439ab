-------------------------- MODULE DriverProperties --------------------------
(***************************************************************************)
(* What a user of the compiler may rely on, of the files it leaves and of  *)
(* its exit status, whichever stage failed.                                *)
(***************************************************************************)
EXTENDS Driver

(* A successful exit means that the file asked for was built in this run,  *)
(* out of what the input held: -S leaves its whole assembly, otherwise an  *)
(* executable linked from it.  Only lost writes, which nothing looks at,   *)
(* leave less than the whole.                                              *)
SuccessMeansBuilt ==
  rc = EXIT_SUCCESS =>
    LET assembly == <<IF lost THEN "part" ELSE "asm", text>>
    IN /\ files[asm_path] = assembly
       /\ args.mode = "MODE_EXECUTABLE" => files[exe_path] = <<"exe", assembly>>

(* No executable, left behind by a failed run or not, is linked from an    *)
(* assembly file that an error cut short, although that file stays there   *)
(* under the name gcc is given; and a run that does not get to gcc leaves  *)
(* every file but the assembly file as it was.                             *)
NoPartLinked ==
  \A path \in DOMAIN files :
    /\ files[path][1] = "exe" /\ ~lost => files[path][2] = <<"asm", text>>
    /\ child = "none" /\ path # asm_path => files[path] \in {Absent, <<"old", path>>}

(* The input keeps its contents, unless -o names it, its name ends in .s,  *)
(* or it is a.out.                                                         *)
SourceSurvives ==
  text # NULL /\ args.input \notin {args.output, AOut, swap_extension(args.input, DotS)} =>
    files[args.input] = text

(* The assembly file stands beside its source, under its name with the     *)
(* extension changed, whatever dots the directories before it hold.  (The  *)
(* input must have an extension if they do: ../prog would give ..s.)       *)
AssemblyBeside ==
  asm_path # NULL /\ asm_path # args.output =>
    LET n == Len(args.input)
    IN /\ n > 2 /\ args.input[n - 1] = "." /\ args.input[n] # "."
            => asm_path = SubSeq(args.input, 1, n - 2) \o DotS
       /\ Dots(args.input) = {} => asm_path = args.input \o DotS
=============================================================================
