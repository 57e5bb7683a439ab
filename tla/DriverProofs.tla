---------------------------- MODULE DriverProofs ----------------------------
(***************************************************************************)
(* What a run leaves behind, for every command line.                       *)
(***************************************************************************)
EXTENDS DriverProperties, TLAPS

Untouched(path) == files[path] \in {Absent, <<"old", path>>}

\* All that is in the assembly file once the generator has ended.
Assembly == <<IF lost THEN "part" ELSE "asm", text>>

ArgsOK ==
  /\ argv \in CommandLines
  /\ i \in Nat \ {0}
  /\ args = [mode |-> args.mode, input |-> args.input, output |-> args.output]
  /\ args.input \in Words(argv) \cup {NULL}
  /\ args.output \in Words(argv) \cup {NULL}

\* The two files a run may write are among those it knows of.
PathsOK ==
  /\ asm_path \in Path(argv) /\ asm_path \in {args.output, swap_extension(args.input, DotS)}
  /\ args.mode = "MODE_EXECUTABLE" =>
       exe_path \in Path(argv) /\ exe_path \in {args.output, AOut}

\* The stages before the assembly file is opened.
Early == {"tokenize", "parse", "print", "asm_init", "hung"}

\* What the files hold at each stage.
AtStage ==
  /\ phase \in {"args", "gen_program", "fork", "waitpid", "ended"} \cup Early
  /\ phase = "args" => text = NULL
  /\ phase \in {"gen_program", "fork", "waitpid"} \cup Early => PathsOK
  /\ phase # "ended" => rc = Unknown
  /\ phase \in {"args"} \cup Early =>
       child = "none" /\ ~lost /\ \A path \in DOMAIN files : Untouched(path)
  /\ phase = "gen_program" => child = "none" /\ ~lost /\ files[asm_path] = <<"part", text>>
  /\ phase = "fork" =>
       child = "none" /\ args.mode = "MODE_EXECUTABLE" /\ files[asm_path] = Assembly
  /\ phase = "waitpid" => child # "none" /\ args.mode = "MODE_EXECUTABLE"
  /\ phase = "waitpid" /\ child \in {"running", "exit 0"} => files[asm_path] = Assembly
  /\ phase = "waitpid" /\ child = "exit 0" => files[exe_path] = <<"exe", Assembly>>
  /\ child = "running" => phase = "waitpid"

IInv ==
  /\ ArgsOK
  /\ files = [path \in Path(argv) |-> files[path]]
  /\ AtStage
  /\ SuccessMeansBuilt /\ NoPartLinked /\ SourceSurvives

-----------------------------------------------------------------------------
LEMMA Starts == Init => IInv
<1> SUFFICES ASSUME Init PROVE IInv
  OBVIOUS
<1>1. PICK there \in SUBSET Before(argv) :
        files = [path \in Path(argv) |-> IF path \in there THEN <<"old", path>> ELSE Absent]
  BY DEF Init
<1>2. \A path \in DOMAIN files : Untouched(path)
  BY <1>1 DEF Untouched
<1>3. ArgsOK
  BY DEF Init, ArgsOK
<1>4. AtStage
  BY <1>2 DEF Init, AtStage, Early
<1>5. SuccessMeansBuilt /\ SourceSurvives
  BY DEF Init, SuccessMeansBuilt, SourceSurvives, EXIT_SUCCESS, Unknown
<1>6. NoPartLinked
  BY <1>2 DEF NoPartLinked, Untouched, Absent
<1>7. files = [path \in Path(argv) |-> files[path]]
  BY <1>1
<1> QED BY <1>3, <1>4, <1>5, <1>6, <1>7 DEF IInv

\* A step that leaves the files and the paths alone.
LEMMA Unwritten ==
  ASSUME IInv, ArgsOK', AtStage', UNCHANGED <<argv, files, text, paths>>, lost => lost',
         text # NULL => UNCHANGED args, child' = "none" => child = "none", SuccessMeansBuilt'
  PROVE  IInv'
<1>1. files' = [path \in Path(argv') |-> files'[path]]
  BY DEF IInv
<1>2. NoPartLinked'
  BY DEF IInv, NoPartLinked, paths
<1>3. SourceSurvives'
  BY DEF IInv, SourceSurvives
<1> QED BY <1>1, <1>2, <1>3 DEF IInv

\* A step that ends the run without success.
LEMMA Fails ==
  ASSUME IInv, phase # "ended", child # "running", \E status : status # EXIT_SUCCESS /\ Stop(status),
         UNCHANGED <<fixed, files, text, paths, lost, child>>
  PROVE  IInv'
<1>1. ArgsOK'
  BY DEF IInv, ArgsOK, fixed
<1>2. AtStage'
  BY DEF IInv, AtStage, Early, Stop
<1>3. SuccessMeansBuilt'
  BY DEF SuccessMeansBuilt, Stop
<1> QED BY <1>1, <1>2, <1>3, Unwritten DEF fixed

LEMMA ParseArgsInv == ASSUME IInv, parse_cli_args PROVE IInv'
<1>1. /\ argv \in Seq(Seq(STRING) \ {<<>>}) /\ i \in Nat \ {0} /\ i <= Len(argv)
      /\ phase = "args" /\ text = NULL /\ UNCHANGED <<argv, files, text, paths, lost, child>>
  BY CommandLinesAssumption DEF IInv, ArgsOK, AtStage, parse_cli_args
<1>2. argv[i] \in Words(argv) /\ (i < Len(argv) => argv[i + 1] \in Words(argv))
  BY <1>1 DEF Words
<1>3. CASE \E a : /\ \/ a = [args EXCEPT !.mode = "MODE_ASM_ONLY"]
                     \/ i < Len(argv) /\ a = [args EXCEPT !.output = argv[i + 1]]
                     \/ a = [args EXCEPT !.input = argv[i]]
                  /\ \E k \in {i + 1, i + 2} : Read(k, a)
  <2>1. PICK a : /\ \/ a = [args EXCEPT !.mode = "MODE_ASM_ONLY"]
                    \/ i < Len(argv) /\ a = [args EXCEPT !.output = argv[i + 1]]
                    \/ a = [args EXCEPT !.input = argv[i]]
                 /\ \E k \in {i + 1, i + 2} : Read(k, a)
    BY <1>3
  <2>2. /\ a = [mode |-> a.mode, input |-> a.input, output |-> a.output]
        /\ a.input \in Words(argv) \cup {NULL} /\ a.output \in Words(argv) \cup {NULL}
    BY <1>2, <2>1 DEF IInv, ArgsOK
  <2>3. ArgsOK'
    BY <1>1, <2>1, <2>2 DEF IInv, ArgsOK, Read
  <2>4. AtStage'
    BY <1>1, <2>1 DEF IInv, AtStage, Read, Early, Untouched
  <2>5. SuccessMeansBuilt'
    BY <1>1, <2>1 DEF IInv, AtStage, SuccessMeansBuilt, Read, EXIT_SUCCESS, Unknown
  <2> QED BY <1>1, <2>3, <2>4, <2>5, Unwritten
<1>4. CASE Stop(EXIT_FAILURE) /\ UNCHANGED <<i, args>>
  <2>1. UNCHANGED fixed /\ child # "running"
    BY <1>1, <1>4 DEF fixed, IInv, AtStage
  <2>2. EXIT_FAILURE # EXIT_SUCCESS
    BY DEF EXIT_FAILURE, EXIT_SUCCESS
  <2> QED BY <1>1, <1>4, <2>1, <2>2, Fails
<1> QED BY <1>3, <1>4 DEF parse_cli_args

LEMMA OpenInputInv == ASSUME IInv, OpenInput PROVE IInv'
<1>1. /\ phase = "args" /\ args.input # NULL /\ Go("tokenize")
      /\ asm_path' = AsmPath(args)
      /\ args.mode = "MODE_EXECUTABLE" => exe_path' = ExePath(args)
      /\ text' = files[args.input] /\ UNCHANGED <<fixed, files, lost, child>>
  BY DEF OpenInput, Readable
<1>2. args.input \in Words(argv) /\ (args.output # NULL => args.output \in Words(argv))
  BY <1>1 DEF IInv, ArgsOK
<1>3. swap_extension(args.input, DotS) \in Path(argv) /\ Words(argv) \subseteq Path(argv)
      /\ AOut \in Path(argv)
  BY <1>2 DEF Path
<1>4. PathsOK'
  BY <1>1, <1>2, <1>3 DEF PathsOK, AsmPath, ExePath, fixed
<1>5. ArgsOK'
  BY <1>1 DEF IInv, ArgsOK, fixed
<1>6. AtStage'
  BY <1>1, <1>4 DEF IInv, AtStage, Early, Go, Untouched
<1>7. SuccessMeansBuilt'
  BY <1>1 DEF IInv, AtStage, SuccessMeansBuilt, Go, EXIT_SUCCESS, Unknown
<1>8. \A path \in DOMAIN files' : Untouched(path)'
  BY <1>1 DEF IInv, AtStage, Untouched
<1>9. NoPartLinked'
  BY <1>8 DEF NoPartLinked, Untouched, Absent
<1>10. SourceSurvives'
  BY <1>1 DEF SourceSurvives, fixed
<1>11. files' = [path \in Path(argv') |-> files'[path]]
  BY <1>1 DEF IInv, fixed
<1> QED BY <1>5, <1>6, <1>7, <1>9, <1>10, <1>11 DEF IInv

LEMMA NoInputInv == ASSUME IInv, NoInput PROVE IInv'
<1>1. EXIT_FAILURE # EXIT_SUCCESS /\ child # "running" /\ phase # "ended"
  BY DEF EXIT_FAILURE, EXIT_SUCCESS, IInv, AtStage, NoInput
<1> QED BY <1>1, Fails DEF NoInput

LEMMA Failing ==
  ASSUME IInv, phase # "ended", child # "running", Failed,
         UNCHANGED <<fixed, files, text, paths, lost, child>>
  PROVE  IInv'
<1>1. \E status : status # EXIT_SUCCESS /\ Stop(status)
  BY DEF Failed, EXIT_SUCCESS, EXIT_FAILURE, Killed
<1> QED BY <1>1, Fails

LEMMA FrontendInv == ASSUME IInv, Frontend PROVE IInv'
<1>1. /\ phase \in {"tokenize", "parse", "print"} /\ child # "running"
      /\ UNCHANGED <<fixed, files, text, paths, lost, child>>
  BY DEF Frontend, IInv, AtStage, Early
<1>2. CASE \E next \in Early : Go(next)
  <2>1. PICK next \in Early : Go(next)
    BY <1>2
  <2>2. ArgsOK'
    BY <1>1 DEF IInv, ArgsOK, fixed
  <2>3. PathsOK'
    BY <1>1 DEF IInv, AtStage, Early, PathsOK, fixed, paths
  <2>4. AtStage'
    BY <1>1, <2>1, <2>3 DEF IInv, AtStage, Early, Go, Untouched, fixed, paths
  <2>5. rc' = Unknown
    BY <1>1, <2>1 DEF IInv, AtStage, Go
  <2>6. SuccessMeansBuilt'
    BY <2>5 DEF SuccessMeansBuilt, EXIT_SUCCESS, Unknown
  <2> QED BY <1>1, <2>2, <2>4, <2>6, Unwritten DEF fixed
<1>3. CASE Failed
  BY <1>1, <1>3, Failing
<1>4. {"parse", "hung", "print", "asm_init"} \subseteq Early
  BY DEF Early
<1> QED BY <1>2, <1>3, <1>4 DEF Frontend

\* A step that writes the assembly file, while no other has been written.
LEMMA WritesAssembly ==
  ASSUME IInv, phase \in {"asm_init", "gen_program"}, NEW mark \in {"part", "asm"},
         files' = [files EXCEPT ![asm_path] = <<mark, text>>], UNCHANGED <<fixed, text, paths, child>>
  PROVE  /\ ArgsOK' /\ files' = [path \in Path(argv') |-> files'[path]]
         /\ PathsOK' /\ files'[asm_path] = <<mark, text>> /\ NoPartLinked' /\ SourceSurvives'
<1>1. PathsOK /\ asm_path \in DOMAIN files /\ DOMAIN files = Path(argv)
  BY DEF IInv, AtStage, Early, PathsOK
<1>2. \A path \in DOMAIN files : files'[path] = IF path = asm_path THEN <<mark, text>> ELSE files[path]
  BY <1>1
<1>3. DOMAIN files' = DOMAIN files /\ files' = [path \in Path(argv) |-> files'[path]]
  BY <1>1
<1>4. child = "none"
  BY DEF IInv, AtStage, Early
<1>5. ASSUME NEW path \in DOMAIN files, path # asm_path PROVE Untouched(path)
  BY <1>4, <1>5 DEF IInv, NoPartLinked, Untouched
<1>6. \A path \in DOMAIN files : path # asm_path => Untouched(path)
  BY <1>5
<1>7. NoPartLinked'
  BY <1>2, <1>3, <1>6 DEF NoPartLinked, Untouched, Absent, paths
<1>8. SourceSurvives'
  <2>1. SUFFICES ASSUME text # NULL,
                        args.input \notin {args.output, AOut, swap_extension(args.input, DotS)}
                 PROVE  files'[args.input] = text
    BY DEF SourceSurvives, fixed
  <2>2. files[args.input] = text /\ args.input # asm_path
    BY <1>1, <2>1 DEF IInv, SourceSurvives, PathsOK
  <2> QED BY <2>2
<1>9. ArgsOK' /\ PathsOK'
  BY <1>1 DEF IInv, ArgsOK, PathsOK, fixed, paths
<1> QED BY <1>1, <1>2, <1>3, <1>7, <1>8, <1>9 DEF fixed

LEMMA AsmInitInv == ASSUME IInv, asm_init PROVE IInv'
<1>1. phase = "asm_init" /\ child = "none" /\ ~lost /\ UNCHANGED <<fixed, text, paths, lost, child>>
  BY DEF asm_init, IInv, AtStage, Early
<1>2. CASE files' = [files EXCEPT ![asm_path] = <<"part", text>>] /\ Go("gen_program")
  <2>1. /\ ArgsOK' /\ files' = [path \in Path(argv') |-> files'[path]]
        /\ PathsOK' /\ files'[asm_path] = <<"part", text>> /\ NoPartLinked' /\ SourceSurvives'
    BY <1>1, <1>2, WritesAssembly
  <2>2. AtStage'
    BY <1>1, <1>2, <2>1 DEF IInv, AtStage, Early, Go, paths
  <2>3. SuccessMeansBuilt'
    BY <1>1, <1>2 DEF IInv, AtStage, SuccessMeansBuilt, Go, EXIT_SUCCESS, Unknown
  <2> QED BY <2>1, <2>2, <2>3 DEF IInv
<1>3. CASE Stop(Killed) /\ UNCHANGED files
  BY <1>1, <1>3, Failing DEF Failed
<1> QED BY <1>2, <1>3 DEF asm_init

\* The generator has ended, and the assembly file holds what it holds.
LEMMA GeneratorEnds ==
  ASSUME IInv, phase = "gen_program", AfterCompile, ArgsOK', NoPartLinked', SourceSurvives', PathsOK',
         files' = [path \in Path(argv') |-> files'[path]], files'[asm_path] = Assembly',
         UNCHANGED <<fixed, text, paths, child>>
  PROVE  IInv'
<1>1. child = "none" /\ rc = Unknown
  BY DEF IInv, AtStage
<1>2. CASE args.mode = "MODE_EXECUTABLE" /\ Go("fork")
  <2>1. AtStage'
    BY <1>1, <1>2 DEF AtStage, Early, Go, fixed, paths
  <2>2. SuccessMeansBuilt'
    BY <1>1, <1>2 DEF SuccessMeansBuilt, Go, EXIT_SUCCESS, Unknown
  <2> QED BY <2>1, <2>2 DEF IInv
<1>3. CASE args.mode # "MODE_EXECUTABLE" /\ Stop(EXIT_SUCCESS)
  <2>1. AtStage'
    BY <1>1, <1>3 DEF AtStage, Early, Stop
  <2>2. SuccessMeansBuilt'
    BY <1>3 DEF SuccessMeansBuilt, Assembly, fixed, paths
  <2> QED BY <2>1, <2>2 DEF IInv
<1> QED BY <1>2, <1>3 DEF AfterCompile

LEMMA GenProgramInv == ASSUME IInv, gen_program PROVE IInv'
<1>1. /\ phase = "gen_program" /\ child = "none" /\ ~lost /\ files[asm_path] = <<"part", text>>
      /\ UNCHANGED <<fixed, text, paths, child>>
  BY DEF gen_program, IInv, AtStage
<1>2. CASE AfterCompile /\ files' = [files EXCEPT ![asm_path] = <<"asm", text>>] /\ UNCHANGED lost
  <2>1. /\ ArgsOK' /\ files' = [path \in Path(argv') |-> files'[path]]
        /\ PathsOK' /\ files'[asm_path] = <<"asm", text>> /\ NoPartLinked' /\ SourceSurvives'
    BY <1>1, <1>2, WritesAssembly
  <2>2. files'[asm_path] = Assembly'
    BY <1>1, <1>2, <2>1 DEF Assembly
  <2> QED BY <1>1, <1>2, <2>1, <2>2, GeneratorEnds
<1>3. CASE AfterCompile /\ lost' = TRUE /\ UNCHANGED files
  <2>1. ArgsOK' /\ PathsOK' /\ files' = [path \in Path(argv') |-> files'[path]]
    BY <1>1, <1>3 DEF IInv, AtStage, ArgsOK, PathsOK, fixed, paths
  <2>2. NoPartLinked' /\ SourceSurvives'
    BY <1>1, <1>3 DEF IInv, NoPartLinked, SourceSurvives, fixed, paths
  <2>3. files'[asm_path] = Assembly'
    BY <1>1, <1>3 DEF Assembly
  <2> QED BY <1>1, <1>3, <2>1, <2>2, <2>3, GeneratorEnds
<1>4. CASE Failed /\ UNCHANGED <<files, lost>>
  BY <1>1, <1>4, Failing
<1> QED BY <1>2, <1>3, <1>4 DEF gen_program, GenError

LEMMA ForkInv == ASSUME IInv, fork PROVE IInv'
<1>1. phase = "fork" /\ child = "none" /\ UNCHANGED <<fixed, files, text, paths, lost>>
  BY DEF fork, IInv, AtStage
<1>2. CASE child' = "running" /\ Go("waitpid")
  <2>1. ArgsOK' /\ PathsOK'
    BY <1>1 DEF IInv, AtStage, ArgsOK, PathsOK, fixed, paths
  <2>2. AtStage'
    BY <1>1, <1>2, <2>1 DEF IInv, AtStage, Early, Go, Assembly, fixed, paths
  <2>3. SuccessMeansBuilt'
    BY <1>1, <1>2 DEF IInv, AtStage, SuccessMeansBuilt, Go, EXIT_SUCCESS, Unknown
  <2> QED BY <1>1, <1>2, <2>1, <2>2, <2>3, Unwritten DEF fixed
<1>3. CASE Stop(EXIT_FAILURE) /\ UNCHANGED child
  BY <1>1, <1>3, Failing DEF Failed
<1> QED BY <1>2, <1>3 DEF fork

LEMMA GccInv == ASSUME IInv, gcc PROVE IInv'
<1>1. /\ child = "running" /\ phase = "waitpid" /\ args.mode = "MODE_EXECUTABLE" /\ PathsOK
      /\ files[asm_path] = Assembly /\ rc = Unknown
  BY DEF gcc, IInv, AtStage
<1> DEFINE Left(how, c) == \/ how # "exit 0" /\ c = files[exe_path]
                           \/ how = "exit 0" /\ c = <<"exe", files[asm_path]>> /\ exe_path # asm_path
                           \/ how # "exit 0" /\ c \in {Absent, <<"part", files[asm_path]>>}
<1>2. PICK how, c : how \notin {"none", "running"} /\ Ends(how, c) /\ Left(how, c)
  <2>1. ASSUME NEW h \in {"exit 127", "exit 1", "signal"}, Ends(h, files[exe_path])
        PROVE  h \notin {"none", "running"} /\ Left(h, files[exe_path])
    OBVIOUS
  <2>2. ASSUME exe_path # asm_path, Ends("exit 0", <<"exe", files[asm_path]>>)
        PROVE  Left("exit 0", <<"exe", files[asm_path]>>)
    BY <2>2
  <2>3. ASSUME NEW h \in {"exit 1", "signal"}, NEW c \in {Absent, <<"part", files[asm_path]>>}
        PROVE  h \notin {"none", "running"} /\ Left(h, c)
    OBVIOUS
  <2>4. \/ \E h \in {"exit 127", "exit 1", "signal"} : Ends(h, files[exe_path])
        \/ exe_path # asm_path /\ Ends("exit 0", <<"exe", files[asm_path]>>)
        \/ \E h \in {"exit 1", "signal"}, c \in {Absent, <<"part", files[asm_path]>>} : Ends(h, c)
    BY Zenon DEF gcc
  <2> HIDE DEF Left
  <2> QED BY <2>1, <2>2, <2>3, <2>4, Zenon
<1>3. exe_path \in DOMAIN files /\ asm_path \in DOMAIN files /\ DOMAIN files = Path(argv)
  BY <1>1 DEF IInv, PathsOK
<1>4. /\ child' = how /\ files' = [files EXCEPT ![exe_path] = c]
      /\ UNCHANGED <<fixed, text, paths, lost, rc, phase>>
  BY <1>2 DEF Ends
<1>5. /\ DOMAIN files' = DOMAIN files
      /\ \A path \in DOMAIN files : files'[path] = IF path = exe_path THEN c ELSE files[path]
      /\ files' = [path \in Path(argv') |-> files'[path]]
  BY <1>3, <1>4 DEF fixed
<1>6. ArgsOK' /\ PathsOK'
  BY <1>1, <1>4 DEF IInv, ArgsOK, PathsOK, fixed, paths
<1>7. AtStage'
  <2>1. how = "exit 0" => files'[asm_path] = Assembly /\ files'[exe_path] = <<"exe", Assembly>>
    BY <1>1, <1>2, <1>3, <1>5
  <2> QED BY <1>1, <1>2, <1>4, <1>6, <2>1 DEF AtStage, Early, Assembly, fixed, paths
<1>8. NoPartLinked'
  <2>1. CASE c = files[exe_path]
    BY <1>2, <1>3, <1>4, <1>5, <2>1 DEF IInv, NoPartLinked
  <2>2. CASE c = <<"exe", Assembly>>
    BY <1>2, <1>4, <1>5, <2>2 DEF IInv, NoPartLinked, Assembly
  <2>3. CASE c \in {Absent, <<"part", files[asm_path]>>}
    <3>1. Absent[1] # "exe" /\ \A x : <<"part", x>>[1] # "exe"
      BY DEF Absent
    <3>2. c = Absent \/ c = <<"part", files[asm_path]>>
      BY <2>3
    <3>3. c[1] # "exe"
      BY <3>1, <3>2, Zenon
    <3> QED BY <1>2, <1>4, <1>5, <3>3 DEF IInv, NoPartLinked
  <2> QED BY <1>1, <1>2, <2>1, <2>2, <2>3
<1>9. SourceSurvives'
  <2>1. SUFFICES ASSUME text # NULL,
                        args.input \notin {args.output, AOut, swap_extension(args.input, DotS)}
                 PROVE  files'[args.input] = text
    BY <1>4 DEF SourceSurvives, fixed
  <2>2. files[args.input] = text /\ args.input # exe_path
    BY <1>1, <2>1 DEF IInv, SourceSurvives, PathsOK
  <2> QED BY <1>4, <2>2
<1>10. SuccessMeansBuilt'
  BY <1>1, <1>4 DEF SuccessMeansBuilt, EXIT_SUCCESS, Unknown
<1> QED BY <1>5, <1>6, <1>7, <1>8, <1>9, <1>10 DEF IInv

LEMMA WaitpidInv == ASSUME IInv, waitpid PROVE IInv'
<1>1. phase = "waitpid" /\ child # "running" /\ UNCHANGED <<fixed, files, text, paths, lost, child>>
  BY DEF waitpid
<1>2. CASE Succeeded /\ Stop(EXIT_SUCCESS)
  <2>1. ArgsOK'
    BY <1>1 DEF IInv, ArgsOK, fixed
  <2>2. AtStage'
    BY <1>1, <1>2 DEF IInv, AtStage, Early, Stop
  <2>3. SuccessMeansBuilt'
    BY <1>1, <1>2 DEF IInv, AtStage, Succeeded, SuccessMeansBuilt, Assembly, fixed, paths
  <2> QED BY <1>1, <2>1, <2>2, <2>3, Unwritten DEF fixed
<1>3. CASE Stop(EXIT_FAILURE)
  BY <1>1, <1>3, Failing DEF Failed
<1> QED BY <1>2, <1>3 DEF waitpid

LEMMA Inductive == IInv /\ [Next]_vars => IInv'
<1> SUFFICES ASSUME IInv, [Next]_vars PROVE IInv'
  OBVIOUS
<1>1. CASE main
  BY <1>1, ParseArgsInv, OpenInputInv, NoInputInv, FrontendInv, AsmInitInv, GenProgramInv, ForkInv,
     WaitpidInv DEF main
<1>2. CASE UNCHANGED vars
  <2>1. UNCHANGED <<argv, i, args, files, text, asm_path, exe_path, lost, child, rc, phase>>
    BY <1>2 DEF vars
  <2>2. ArgsOK' /\ AtStage' /\ SuccessMeansBuilt'
    <3>1. ArgsOK'
      BY <2>1 DEF IInv, ArgsOK
    <3>2. PathsOK' = PathsOK /\ Assembly' = Assembly /\ \A path : Untouched(path)' = Untouched(path)
      BY <2>1 DEF PathsOK, Untouched, Assembly
    <3>3. AtStage'
      BY <2>1, <3>2 DEF IInv, AtStage
    <3>4. SuccessMeansBuilt'
      BY <2>1 DEF IInv, SuccessMeansBuilt
    <3> QED BY <3>1, <3>3, <3>4
  <2> QED BY <2>1, <2>2, Unwritten DEF paths
<1> QED BY <1>1, <1>2, GccInv DEF Next, Terminated

-----------------------------------------------------------------------------
(***************************************************************************)
(* Whatever the command line, the files and the failures, exit status 0    *)
(* means that what was asked for was built, from this input.               *)
(***************************************************************************)
THEOREM SuccessIsTrue == Spec => []SuccessMeansBuilt
<1>1. IInv => SuccessMeansBuilt
  BY DEF IInv
<1> QED BY Starts, Inductive, <1>1, PTL DEF Spec

(***************************************************************************)
(* Whatever the command line, the files and the failures, no executable is *)
(* made from an assembly file that an error cut short, and a run that does *)
(* not get to gcc writes no file but the assembly file.                    *)
(***************************************************************************)
THEOREM PartsStayUnlinked == Spec => []NoPartLinked
<1>1. IInv => NoPartLinked
  BY DEF IInv
<1> QED BY Starts, Inductive, <1>1, PTL DEF Spec

(***************************************************************************)
(* Whatever the command line, the files and the failures, the source is    *)
(* not written to unless its name is one that the output has.              *)
(***************************************************************************)
THEOREM SourceIsKept == Spec => []SourceSurvives
<1>1. IInv => SourceSurvives
  BY DEF IInv
<1> QED BY Starts, Inductive, <1>1, PTL DEF Spec

-----------------------------------------------------------------------------
(* The assembly file's name *)

\* The name is settled when the input is opened, and the arguments no longer
\* change then.
Named ==
  /\ phase = "args" => asm_path = NULL
  /\ asm_path \in {NULL, args.output, swap_extension(args.input, DotS)}

LEMMA NamedKept ==
  ASSUME IInv, Named, [Next]_vars
  PROVE  Named'
<1>1. CASE parse_cli_args
  BY <1>1 DEF parse_cli_args, Named, paths
<1>2. CASE OpenInput
  BY <1>2 DEF OpenInput, AsmPath, Named, Go, fixed
<1>3. CASE UNCHANGED <<args, asm_path>> /\ (phase' = phase \/ phase' # "args")
  BY <1>3 DEF Named
<1>4. CASE NoInput
  BY <1>4, <1>3 DEF NoInput, Stop, fixed, paths
<1>5. CASE Frontend
  BY <1>5, <1>3 DEF Frontend, Go, Failed, Stop, fixed, paths
<1>6. CASE asm_init
  BY <1>6, <1>3 DEF asm_init, Go, Stop, fixed, paths
<1>7. CASE gen_program
  BY <1>7, <1>3 DEF gen_program, AfterCompile, GenError, Failed, Go, Stop, fixed, paths
<1>8. CASE fork \/ waitpid
  BY <1>8, <1>3 DEF fork, waitpid, Go, Stop, fixed, paths
<1>9. CASE gcc
  BY <1>9, <1>3 DEF gcc, Ends, fixed, paths
<1>10. CASE UNCHANGED vars
  BY <1>10, <1>3 DEF vars
<1> QED
  BY <1>1, <1>2, <1>4, <1>5, <1>6, <1>7, <1>8, <1>9, <1>10 DEF Next, main, Terminated

\* With one piece after its last dot, a name loses that piece and the dot.
LEMMA Swapped ==
  ASSUME NEW path \in Seq(STRING), NEW ext
  PROVE  /\ Len(path) > 2 /\ path[Len(path) - 1] = "." /\ path[Len(path)] # "."
              => swap_extension(path, ext) = SubSeq(path, 1, Len(path) - 2) \o ext
         /\ Dots(path) = {} => swap_extension(path, ext) = path \o ext
<1> DEFINE n == Len(path)
<1>1. ASSUME n > 2, path[n - 1] = ".", path[n] # "."
      PROVE  swap_extension(path, ext) = SubSeq(path, 1, n - 2) \o ext
  <2>1. n - 1 \in Dots(path) /\ \A k \in Dots(path) : k \in Nat /\ k <= n - 1
    BY <1>1 DEF Dots
  <2>2. \A m \in Dots(path) : (\A k \in Dots(path) : m >= k) <=> m = n - 1
    BY <1>1, <2>1
  <2>3. Max(Dots(path)) = n - 1
    BY <2>1, <2>2, Zenon DEF Max
  <2>4. Max(Dots(path)) - 1 = n - 2 /\ Dots(path) # {}
    BY <2>1, <2>3
  <2> QED BY <2>4, Zenon DEF swap_extension
<1>2. SubSeq(path, 1, n) = path
  OBVIOUS
<1> QED BY <1>1, <1>2 DEF swap_extension

(***************************************************************************)
(* Whatever the command line and the files, the assembly file has the name *)
(* of the input but for what follows the last dot, unless -o names it.     *)
(***************************************************************************)
THEOREM AssemblyIsBeside == Spec => []AssemblyBeside
<1>1. Init => Named
  BY DEF Init, Named
<1>2. IInv /\ Named => AssemblyBeside
  <2> SUFFICES ASSUME IInv, Named PROVE AssemblyBeside
    OBVIOUS
  <2>1. args.input \in Seq(STRING)
    <3>1. argv \in Seq(Seq(STRING) \ {<<>>})
      BY CommandLinesAssumption DEF IInv, ArgsOK
    <3>2. \A k \in DOMAIN argv : argv[k] \in Seq(STRING)
      BY <3>1
    <3>3. <<>> \in Seq(STRING)
      OBVIOUS
    <3> QED BY <3>2, <3>3 DEF IInv, ArgsOK, Words, NULL
  <2> QED BY <2>1, Swapped DEF Named, AssemblyBeside
<1> QED BY Starts, Inductive, NamedKept, <1>1, <1>2, PTL DEF Spec
=============================================================================
