--------------------------- MODULE CommandLineProofs ---------------------------
(***************************************************************************)
(* What the command line promises, for any directories, claims, number of  *)
(* commands and of edits: a process is followed from the shell to its end  *)
(* by the phase it is in.                                                  *)
(***************************************************************************)
EXTENDS CommandLine, TLAPS

(* The phases of a process, and in which of them it can be for which command. *)
Working == {"main", "kompile", "kavm", "mkdir", "ready", "proving", "parse", "krun", "output"}
Phases  == Working \cup {"shell", "failed", "caller", "exited"}

(* The options with the keys the parser gives them, and with the command.    *)
Commands == {"env", "kompile", "prove", "kore-repl", "kast", "run", "kcfg-view",
             "kcfg-show", "kcfg-prove", "evaluate", "intermediate"}
Bare == [dir : Dirs \cup {None}, backend : Backends \cup {"other"}, suffix : Suffixes \cup {None},
         output : KastOutputs \cup RunOutputs \cup {None},
         definition : Dirs \cup {None}, claim : Claims \cup {None}]
Shape == [command : Commands, dir : Dirs \cup {None}, backend : Backends \cup {"other"},
          suffix : Suffixes \cup {None}, output : KastOutputs \cup RunOutputs \cup {None},
          definition : Dirs \cup {None}, claim : Claims \cup {None}]

\* The options of a command, with the command, have the keys and values of Shape.
LEMMA WithShape ==
  ASSUME NEW c \in Commands, NEW o \in Bare
  PROVE  With(c, o) \in Shape
<1> DEFINE w == With(c, o)
            F == {"command", "dir", "backend", "suffix", "output", "definition", "claim"}
<1>1. DOMAIN o = F \ {"command"}
  BY DEF Bare
<1>3. w = [x \in F |-> IF x = "command" THEN c ELSE o[x]]
  BY <1>1 DEF With
<1>4. /\ w["command"] = c /\ w["dir"] = o.dir /\ w["backend"] = o.backend
      /\ w["suffix"] = o.suffix /\ w["output"] = o.output
      /\ w["definition"] = o.definition /\ w["claim"] = o.claim
  BY <1>3
<1>5. w = [x \in F |-> w[x]]
  BY <1>3
<1> HIDE DEF w
<1>6. w = [command |-> w["command"], dir |-> w["dir"], backend |-> w["backend"],
           suffix |-> w["suffix"], output |-> w["output"],
           definition |-> w["definition"], claim |-> w["claim"]]
  BY <1>5
<1>7. w \in Shape
  BY <1>4, <1>6 DEF Shape, Bare
<1> QED  BY <1>7 DEF w

\* The arguments of every command have them.
LEMMA ArgumentsShape == Arguments \subseteq Shape
<1>1. ASSUME NEW a \in EnvOptions PROVE a \in Shape
  <2> DEFINE B(o) == With("env", [o EXCEPT !.dir = None])
  <2>0. EnvOptions = {B(o) : o \in Options}
    BY DEF EnvOptions
  <2> HIDE DEF B
  <2>1. PICK o \in Options : a = B(o)
    BY <2>0
  <2> USE DEF B
  <2>2. PICK p \in Bare : p = [o EXCEPT !.dir = None]
    BY DEF Options, Bare, Backends, Targets, Suffixes, KastOutputs, RunOutputs, Reading, Loading
  <2> QED  BY <2>1, <2>2, WithShape DEF Commands, Kcfg, Client
<1>2. ASSUME NEW a \in KompileOptions PROVE a \in Shape
  <2> DEFINE B(o, b) == With("kompile", [o EXCEPT !.backend = b])
  <2>0. KompileOptions = {B(o, b) : o \in Options, b \in Backends \cup {"other"}}
    BY DEF KompileOptions
  <2> HIDE DEF B
  <2>1. PICK o \in Options, b \in Backends \cup {"other"} : a = B(o, b)
    BY <2>0
  <2> USE DEF B
  <2>2. PICK p \in Bare : p = [o EXCEPT !.backend = b]
    BY DEF Options, Bare, Backends, Targets, Suffixes, KastOutputs, RunOutputs, Reading, Loading
  <2> QED  BY <2>1, <2>2, WithShape DEF Commands, Kcfg, Client
<1>3. ASSUME NEW a \in ProveOptions PROVE a \in Shape
  <2> DEFINE B(o, c) == With("prove", [o EXCEPT !.claim = c])
  <2>0. ProveOptions = {B(o, c) : o \in Options, c \in Claims}
    BY DEF ProveOptions
  <2> HIDE DEF B
  <2>1. PICK o \in Options, c \in Claims : a = B(o, c)
    BY <2>0
  <2> USE DEF B
  <2>2. PICK p \in Bare : p = [o EXCEPT !.claim = c]
    BY DEF Options, Bare, Backends, Targets, Suffixes, KastOutputs, RunOutputs, Reading, Loading
  <2> QED  BY <2>1, <2>2, WithShape DEF Commands, Kcfg, Client
<1>4. ASSUME NEW a \in ReplOptions PROVE a \in Shape
  <2> DEFINE B(o, c) == With("kore-repl", Loading(o, c))
  <2>0. ReplOptions = {B(o, c) : o \in Options, c \in Claims}
    BY DEF ReplOptions
  <2> HIDE DEF B
  <2>1. PICK o \in Options, c \in Claims : a = B(o, c)
    BY <2>0
  <2> USE DEF B
  <2>2. PICK p \in Bare : p = Loading(o, c)
    BY DEF Options, Bare, Backends, Targets, Suffixes, KastOutputs, RunOutputs, Reading, Loading
  <2> QED  BY <2>1, <2>2, WithShape DEF Commands, Kcfg, Client
<1>5. ASSUME NEW a \in KastOptions PROVE a \in Shape
  <2> DEFINE B(o, s, m) == With("kast", Reading(o, s, m))
  <2>0. KastOptions = {B(o, s, m) : o \in Options, s \in Suffixes, m \in KastOutputs}
    BY DEF KastOptions
  <2> HIDE DEF B
  <2>1. PICK o \in Options, s \in Suffixes, m \in KastOutputs : a = B(o, s, m)
    BY <2>0
  <2> USE DEF B
  <2>2. PICK p \in Bare : p = Reading(o, s, m)
    BY DEF Options, Bare, Backends, Targets, Suffixes, KastOutputs, RunOutputs, Reading, Loading
  <2> QED  BY <2>1, <2>2, WithShape DEF Commands, Kcfg, Client
<1>6. ASSUME NEW a \in RunOptions PROVE a \in Shape
  <2> DEFINE B(o, s, m) == With("run", Reading(o, s, m))
  <2>0. RunOptions = {B(o, s, m) : o \in Options, s \in Suffixes, m \in RunOutputs}
    BY DEF RunOptions
  <2> HIDE DEF B
  <2>1. PICK o \in Options, s \in Suffixes, m \in RunOutputs : a = B(o, s, m)
    BY <2>0
  <2> USE DEF B
  <2>2. PICK p \in Bare : p = Reading(o, s, m)
    BY DEF Options, Bare, Backends, Targets, Suffixes, KastOutputs, RunOutputs, Reading, Loading
  <2> QED  BY <2>1, <2>2, WithShape DEF Commands, Kcfg, Client
<1>7. ASSUME NEW a \in KcfgOptions PROVE a \in Shape
  <2> DEFINE B(o, c, k) == With(k, [o EXCEPT !.claim = c])
  <2>0. KcfgOptions = {B(o, c, k) : o \in Options, c \in Claims, k \in Kcfg}
    BY DEF KcfgOptions
  <2> HIDE DEF B
  <2>1. PICK o \in Options, c \in Claims, k \in Kcfg : a = B(o, c, k)
    BY <2>0
  <2> USE DEF B
  <2>2. PICK p \in Bare : p = [o EXCEPT !.claim = c]
    BY DEF Options, Bare, Backends, Targets, Suffixes, KastOutputs, RunOutputs, Reading, Loading
  <2> QED  BY <2>1, <2>2, WithShape DEF Commands, Kcfg, Client
<1>8. ASSUME NEW a \in ClientCalls PROVE a \in Shape
  <2> DEFINE B(o, k) == With(k, [o EXCEPT !.dir = None])
  <2>0. ClientCalls = {B(o, k) : o \in Options, k \in Client}
    BY DEF ClientCalls
  <2> HIDE DEF B
  <2>1. PICK o \in Options, k \in Client : a = B(o, k)
    BY <2>0
  <2> USE DEF B
  <2>2. PICK p \in Bare : p = [o EXCEPT !.dir = None]
    BY DEF Options, Bare, Backends, Targets, Suffixes, KastOutputs, RunOutputs, Reading, Loading
  <2> QED  BY <2>1, <2>2, WithShape DEF Commands, Kcfg, Client
<1> QED  BY <1>1, <1>2, <1>3, <1>4, <1>5, <1>6, <1>7, <1>8 DEF Arguments

-----------------------------------------------------------------------------
(* The invariant.                                                          *)

\* What every variable holds; the arguments of a process keep the keys the parser
\* gave them, and its directory is found before anything is done in it.
Typed ==
  /\ TypeOK
  /\ sources \in Nat
  /\ envDir \in Dirs \cup {None}
  /\ pc \in Phases
  /\ pc # "shell" => args \in Shape

\* A phase is reached by its commands only.
Phased ==
  /\ pc = "kompile" => args.command = "kompile"
  /\ pc \in {"mkdir", "proving"} => args.command = "kcfg-prove"
  /\ pc \in {"parse", "krun", "failed", "caller", "output"} => args.command \in Runs
  /\ pc = "output" => ending = "fine"

\* There is an error only once krun has failed; run_avm_json leaves its callers the
\* final configuration, or the reason, with the error, unless there is none.
Handled ==
  /\ pc \in Working => error = 0
  /\ pc = "failed" => error = IF args.command = "evaluate" THEN 3 ELSE 1
  /\ pc = "caller" /\ args.command = "run" => ("final" \in shown <=> ending # "crash")
  /\ pc = "caller" /\ args.command = "evaluate" =>
       /\ raised \in {"RuntimeError", "ParseError"}
       /\ raised = "RuntimeError" /\ "reason" \in shown <=> ending # "crash"

\* The definition is current as soon as the tool has run, while KAVM is made on it.
Compiled ==
  pc = "kavm" /\ args.command = "kompile" /\ args.backend \in Targets =>
    definitions[args.dir] = [backend |-> args.backend, version |-> sources]

Inv == /\ Typed /\ Phased /\ Handled /\ Compiled
       /\ StatusIsVerdict /\ FailureIsReported /\ KompiledIsCurrent

\* It holds before the first command is typed.
LEMMA InitInv == Init => Inv
  BY CommandAssumption DEF Init, Inv, Typed, TypeOK, Backends, Targets, Phased, Handled, Compiled, StatusIsVerdict, FailureIsReported,
     KompiledIsCurrent, Exited, Command, Phases, Working

\* Every step keeps the types.
LEMMA TypedNext ==
  ASSUME Typed, Phased, [Next]_vars
  PROVE  Typed'
<1>1. CASE Edit
  BY <1>1, CommandAssumption DEF Edit, disk, Go, Exit, Raise, Command, Client, Runs, Typed, TypeOK, Backends, Targets, Phased, Phases, Working, Shape, Check
<1>2. CASE Type
  BY <1>2, ArgumentsShape, CommandAssumption DEF Type, disk, Go, Exit, Raise, Command, Client, Runs, Typed, TypeOK, Backends, Targets, Phased, Phases, Working, Shape, Check
<1>3. CASE Ended
  BY <1>3, CommandAssumption DEF Ended, disk, Go, Exit, Raise, Command, Client, Runs, Typed, TypeOK, Backends, Targets, Phased, Phases, Working, Shape, Check
<1>4. CASE Main
  BY <1>4, CommandAssumption DEF Main, disk, Go, Exit, Raise, Command, Client, Runs, Typed, TypeOK, Backends, Targets, Phased, Phases, Working, Shape, Check
<1>5. CASE StartClient
  BY <1>5, CommandAssumption DEF StartClient, disk, Go, Exit, Raise, Command, Client, Runs, Typed, TypeOK, Backends, Targets, Phased, Phases, Working, Shape, Check
<1>6. CASE MakeKAVM
  BY <1>6, CommandAssumption DEF MakeKAVM, disk, Go, Exit, Raise, Command, Client, Runs, Typed, TypeOK, Backends, Targets, Phased, Phases, Working, Shape, Check
<1>7. CASE Kompile
  BY <1>7, CommandAssumption DEF Kompile, disk, Go, Exit, Raise, Command, Client, Runs, Typed, TypeOK, Backends, Targets, Phased, Phases, Working, Shape, Check
<1>8. CASE ExecEnv
  BY <1>8, CommandAssumption DEF ExecEnv, disk, Go, Exit, Raise, Command, Client, Runs, Typed, TypeOK, Backends, Targets, Phased, Phases, Working, Shape, Check
<1>9. CASE ExecProve
  BY <1>9, CommandAssumption DEF ExecProve, disk, Go, Exit, Raise, Command, Client, Runs, Typed, TypeOK, Backends, Targets, Phased, Phases, Working, Shape, Check
<1>10. CASE ExecKoreRepl
  BY <1>10, CommandAssumption DEF ExecKoreRepl, disk, Go, Exit, Raise, Command, Client, Runs, Typed, TypeOK, Backends, Targets, Phased, Phases, Working, Shape, Check
<1>11. CASE ExecKast
  BY <1>11, CommandAssumption DEF ExecKast, disk, Go, Exit, Raise, Command, Client, Runs, Typed, TypeOK, Backends, Targets, Phased, Phases, Working, Shape, Check
<1>12. CASE MakeProofDir
  BY <1>12, CommandAssumption DEF MakeProofDir, disk, Go, Exit, Raise, Command, Client, Runs, Typed, TypeOK, Backends, Targets, Phased, Phases, Working, Shape, Check
<1>13. CASE StartProof
  BY <1>13, CommandAssumption DEF StartProof, disk, Go, Exit, Raise, Command, Client, Runs, Typed, TypeOK, Backends, Targets, Phased, Phases, Working, Shape, Check
<1>14. CASE AdvanceProof
  BY <1>14, CommandAssumption DEF AdvanceProof, disk, Go, Exit, Raise, Command, Client, Runs, Typed, TypeOK, Backends, Targets, Phased, Phases, Working, Shape, Check
<1>15. CASE ReadProof
  BY <1>15, CommandAssumption DEF ReadProof, disk, Go, Exit, Raise, Command, Client, Runs, Typed, TypeOK, Backends, Targets, Phased, Phases, Working, Shape, Check
<1>16. CASE ReadInput
  BY <1>16, CommandAssumption DEF ReadInput, disk, Go, Exit, Raise, Command, Client, Runs, Typed, TypeOK, Backends, Targets, Phased, Phases, Working, Shape, Check
<1>17. CASE ParseTeals
  BY <1>17, CommandAssumption DEF ParseTeals, disk, Go, Exit, Raise, Command, Client, Runs, Typed, TypeOK, Backends, Targets, Phased, Phases, Working, Shape, Check
<1>18. CASE Krun
  BY <1>18, CommandAssumption DEF Krun, disk, Go, Exit, Raise, Command, Client, Runs, Typed, TypeOK, Backends, Targets, Phased, Phases, Working, Shape, Check
<1>19. CASE Rerun
  BY <1>19, CommandAssumption DEF Rerun, disk, Go, Exit, Raise, Command, Client, Runs, Typed, TypeOK, Backends, Targets, Phased, Phases, Working, Shape, Check
<1>20. CASE ReadReason
  BY <1>20, CommandAssumption DEF ReadReason, disk, Go, Exit, Raise, Command, Client, Runs, Typed, TypeOK, Backends, Targets, Phased, Phases, Working, Shape, Check
<1>21. CASE Handler
  BY <1>21, CommandAssumption DEF Handler, disk, Go, Exit, Raise, Command, Client, Runs, Typed, TypeOK, Backends, Targets, Phased, Phases, Working, Shape, Check
<1>22. CASE Output
  BY <1>22, CommandAssumption DEF Output, disk, Go, Exit, Raise, Command, Client, Runs, Typed, TypeOK, Backends, Targets, Phased, Phases, Working, Shape, Check
<1>23. CASE UNCHANGED vars
  BY <1>23, CommandAssumption DEF vars, disk, disk, Go, Exit, Raise, Command, Client, Runs, Typed, TypeOK, Backends, Targets, Phased, Phases, Working, Shape, Check
<1> QED  BY <1>1, <1>2, <1>3, <1>4, <1>5, <1>6, <1>7, <1>8, <1>9, <1>10, <1>11, <1>12, <1>13, <1>14, <1>15, <1>16, <1>17, <1>18, <1>19, <1>20, <1>21, <1>22, <1>23 DEF Next, Process

\* A phase is entered for its commands only.
LEMMA PhasedNext ==
  ASSUME Typed, Phased, [Next]_vars
  PROVE  Phased'
<1>1. CASE Edit
  BY <1>1 DEF Edit, disk, Go, Exit, Raise, Command, Client, Runs, Typed, Phased, Shape, Phases
<1>2. CASE Type
  BY <1>2 DEF Type, disk, Go, Exit, Raise, Command, Client, Runs, Typed, Phased, Shape, Phases
<1>3. CASE Ended
  BY <1>3 DEF Ended, disk, Go, Exit, Raise, Command, Client, Runs, Typed, Phased, Shape, Phases
<1>4. CASE Main
  BY <1>4 DEF Main, disk, Go, Exit, Raise, Command, Client, Runs, Typed, Phased, Shape, Phases
<1>5. CASE StartClient
  BY <1>5 DEF StartClient, disk, Go, Exit, Raise, Command, Client, Runs, Typed, Phased, Shape, Phases
<1>6. CASE MakeKAVM
  BY <1>6 DEF MakeKAVM, disk, Go, Exit, Raise, Command, Client, Runs, Typed, Phased, Shape, Phases
<1>7. CASE Kompile
  BY <1>7 DEF Kompile, disk, Go, Exit, Raise, Command, Client, Runs, Typed, Phased, Shape, Phases
<1>8. CASE ExecEnv
  BY <1>8 DEF ExecEnv, disk, Go, Exit, Raise, Command, Client, Runs, Typed, Phased, Shape, Phases
<1>9. CASE ExecProve
  BY <1>9 DEF ExecProve, disk, Go, Exit, Raise, Command, Client, Runs, Typed, Phased, Shape, Phases
<1>10. CASE ExecKoreRepl
  BY <1>10 DEF ExecKoreRepl, disk, Go, Exit, Raise, Command, Client, Runs, Typed, Phased, Shape, Phases
<1>11. CASE ExecKast
  BY <1>11 DEF ExecKast, disk, Go, Exit, Raise, Command, Client, Runs, Typed, Phased, Shape, Phases
<1>12. CASE MakeProofDir
  BY <1>12 DEF MakeProofDir, disk, Go, Exit, Raise, Command, Client, Runs, Typed, Phased, Shape, Phases
<1>13. CASE StartProof
  BY <1>13 DEF StartProof, disk, Go, Exit, Raise, Command, Client, Runs, Typed, Phased, Shape, Phases
<1>14. CASE AdvanceProof
  BY <1>14 DEF AdvanceProof, disk, Go, Exit, Raise, Command, Client, Runs, Typed, Phased, Shape, Phases
<1>15. CASE ReadProof
  BY <1>15 DEF ReadProof, disk, Go, Exit, Raise, Command, Client, Runs, Typed, Phased, Shape, Phases
<1>16. CASE ReadInput
  BY <1>16 DEF ReadInput, disk, Go, Exit, Raise, Command, Client, Runs, Typed, Phased, Shape, Phases
<1>17. CASE ParseTeals
  BY <1>17 DEF ParseTeals, disk, Go, Exit, Raise, Command, Client, Runs, Typed, Phased, Shape, Phases
<1>18. CASE Krun
  BY <1>18 DEF Krun, disk, Go, Exit, Raise, Command, Client, Runs, Typed, Phased, Shape, Phases
<1>19. CASE Rerun
  BY <1>19 DEF Rerun, disk, Go, Exit, Raise, Command, Client, Runs, Typed, Phased, Shape, Phases
<1>20. CASE ReadReason
  BY <1>20 DEF ReadReason, disk, Go, Exit, Raise, Command, Client, Runs, Typed, Phased, Shape, Phases
<1>21. CASE Handler
  BY <1>21 DEF Handler, disk, Go, Exit, Raise, Command, Client, Runs, Typed, Phased, Shape, Phases
<1>22. CASE Output
  BY <1>22 DEF Output, disk, Go, Exit, Raise, Command, Client, Runs, Typed, Phased, Shape, Phases
<1>23. CASE UNCHANGED vars
  BY <1>23 DEF vars, disk, disk, Go, Exit, Raise, Command, Client, Runs, Typed, Phased, Shape, Phases
<1> QED  BY <1>1, <1>2, <1>3, <1>4, <1>5, <1>6, <1>7, <1>8, <1>9, <1>10, <1>11, <1>12, <1>13, <1>14, <1>15, <1>16, <1>17, <1>18, <1>19, <1>20, <1>21, <1>22, <1>23 DEF Next, Process

\* What run_avm_json leaves its callers.
LEMMA HandledNext ==
  ASSUME Typed, Phased, Handled, [Next]_vars
  PROVE  Handled'
<1>1. CASE Edit
  BY <1>1 DEF Edit, disk, Go, Exit, Raise, Command, Client, Runs, Typed, Phased, Handled, Shape, Working, Check, RerunOnError
<1>2. CASE Type
  BY <1>2 DEF Type, disk, Go, Exit, Raise, Command, Client, Runs, Typed, Phased, Handled, Shape, Working, Check, RerunOnError
<1>3. CASE Ended
  BY <1>3 DEF Ended, disk, Go, Exit, Raise, Command, Client, Runs, Typed, Phased, Handled, Shape, Working, Check, RerunOnError
<1>4. CASE Main
  BY <1>4 DEF Main, disk, Go, Exit, Raise, Command, Client, Runs, Typed, Phased, Handled, Shape, Working, Check, RerunOnError
<1>5. CASE StartClient
  BY <1>5 DEF StartClient, disk, Go, Exit, Raise, Command, Client, Runs, Typed, Phased, Handled, Shape, Working, Check, RerunOnError
<1>6. CASE MakeKAVM
  BY <1>6 DEF MakeKAVM, disk, Go, Exit, Raise, Command, Client, Runs, Typed, Phased, Handled, Shape, Working, Check, RerunOnError
<1>7. CASE Kompile
  BY <1>7 DEF Kompile, disk, Go, Exit, Raise, Command, Client, Runs, Typed, Phased, Handled, Shape, Working, Check, RerunOnError
<1>8. CASE ExecEnv
  BY <1>8 DEF ExecEnv, disk, Go, Exit, Raise, Command, Client, Runs, Typed, Phased, Handled, Shape, Working, Check, RerunOnError
<1>9. CASE ExecProve
  BY <1>9 DEF ExecProve, disk, Go, Exit, Raise, Command, Client, Runs, Typed, Phased, Handled, Shape, Working, Check, RerunOnError
<1>10. CASE ExecKoreRepl
  BY <1>10 DEF ExecKoreRepl, disk, Go, Exit, Raise, Command, Client, Runs, Typed, Phased, Handled, Shape, Working, Check, RerunOnError
<1>11. CASE ExecKast
  BY <1>11 DEF ExecKast, disk, Go, Exit, Raise, Command, Client, Runs, Typed, Phased, Handled, Shape, Working, Check, RerunOnError
<1>12. CASE MakeProofDir
  BY <1>12 DEF MakeProofDir, disk, Go, Exit, Raise, Command, Client, Runs, Typed, Phased, Handled, Shape, Working, Check, RerunOnError
<1>13. CASE StartProof
  BY <1>13 DEF StartProof, disk, Go, Exit, Raise, Command, Client, Runs, Typed, Phased, Handled, Shape, Working, Check, RerunOnError
<1>14. CASE AdvanceProof
  BY <1>14 DEF AdvanceProof, disk, Go, Exit, Raise, Command, Client, Runs, Typed, Phased, Handled, Shape, Working, Check, RerunOnError
<1>15. CASE ReadProof
  BY <1>15 DEF ReadProof, disk, Go, Exit, Raise, Command, Client, Runs, Typed, Phased, Handled, Shape, Working, Check, RerunOnError
<1>16. CASE ReadInput
  BY <1>16 DEF ReadInput, disk, Go, Exit, Raise, Command, Client, Runs, Typed, Phased, Handled, Shape, Working, Check, RerunOnError
<1>17. CASE ParseTeals
  BY <1>17 DEF ParseTeals, disk, Go, Exit, Raise, Command, Client, Runs, Typed, Phased, Handled, Shape, Working, Check, RerunOnError
<1>18. CASE Krun
  BY <1>18 DEF Krun, disk, Go, Exit, Raise, Command, Client, Runs, Typed, Phased, Handled, Shape, Working, Check, RerunOnError
<1>19. CASE Rerun
  BY <1>19 DEF Rerun, disk, Go, Exit, Raise, Command, Client, Runs, Typed, Phased, Handled, Shape, Working, Check, RerunOnError
<1>20. CASE ReadReason
  BY <1>20 DEF ReadReason, disk, Go, Exit, Raise, Command, Client, Runs, Typed, Phased, Handled, Shape, Working, Check, RerunOnError
<1>21. CASE Handler
  BY <1>21 DEF Handler, disk, Go, Exit, Raise, Command, Client, Runs, Typed, Phased, Handled, Shape, Working, Check, RerunOnError
<1>22. CASE Output
  BY <1>22 DEF Output, disk, Go, Exit, Raise, Command, Client, Runs, Typed, Phased, Handled, Shape, Working, Check, RerunOnError
<1>23. CASE UNCHANGED vars
  BY <1>23 DEF vars, disk, disk, Go, Exit, Raise, Command, Client, Runs, Typed, Phased, Handled, Shape, Working, Check, RerunOnError
<1> QED  BY <1>1, <1>2, <1>3, <1>4, <1>5, <1>6, <1>7, <1>8, <1>9, <1>10, <1>11, <1>12, <1>13, <1>14, <1>15, <1>16, <1>17, <1>18, <1>19, <1>20, <1>21, <1>22, <1>23 DEF Next, Process

\* A definition that was made is the one KAVM is made on.
LEMMA CompiledNext ==
  ASSUME Typed, Phased, Compiled, [Next]_vars
  PROVE  Compiled'
<1>1. CASE Edit
  BY <1>1 DEF Edit, disk, Go, Exit, Raise, Command, Client, Runs, Typed, TypeOK, Backends, Targets, Phased, Compiled, Shape, Commands
<1>2. CASE Type
  BY <1>2 DEF Type, disk, Go, Exit, Raise, Command, Client, Runs, Typed, TypeOK, Backends, Targets, Phased, Compiled, Shape, Commands
<1>3. CASE Ended
  BY <1>3 DEF Ended, disk, Go, Exit, Raise, Command, Client, Runs, Typed, TypeOK, Backends, Targets, Phased, Compiled, Shape, Commands
<1>4. CASE Main
  BY <1>4 DEF Main, disk, Go, Exit, Raise, Command, Client, Runs, Typed, TypeOK, Backends, Targets, Phased, Compiled, Shape, Commands
<1>5. CASE StartClient
  BY <1>5 DEF StartClient, disk, Go, Exit, Raise, Command, Client, Runs, Typed, TypeOK, Backends, Targets, Phased, Compiled, Shape, Commands
<1>6. CASE MakeKAVM
  BY <1>6 DEF MakeKAVM, disk, Go, Exit, Raise, Command, Client, Runs, Typed, TypeOK, Backends, Targets, Phased, Compiled, Shape, Commands
<1>7. CASE Kompile
  BY <1>7 DEF Kompile, disk, Go, Exit, Raise, Command, Client, Runs, Typed, TypeOK, Backends, Targets, Phased, Compiled, Shape, Commands
<1>8. CASE ExecEnv
  BY <1>8 DEF ExecEnv, disk, Go, Exit, Raise, Command, Client, Runs, Typed, TypeOK, Backends, Targets, Phased, Compiled, Shape, Commands
<1>9. CASE ExecProve
  BY <1>9 DEF ExecProve, disk, Go, Exit, Raise, Command, Client, Runs, Typed, TypeOK, Backends, Targets, Phased, Compiled, Shape, Commands
<1>10. CASE ExecKoreRepl
  BY <1>10 DEF ExecKoreRepl, disk, Go, Exit, Raise, Command, Client, Runs, Typed, TypeOK, Backends, Targets, Phased, Compiled, Shape, Commands
<1>11. CASE ExecKast
  BY <1>11 DEF ExecKast, disk, Go, Exit, Raise, Command, Client, Runs, Typed, TypeOK, Backends, Targets, Phased, Compiled, Shape, Commands
<1>12. CASE MakeProofDir
  BY <1>12 DEF MakeProofDir, disk, Go, Exit, Raise, Command, Client, Runs, Typed, TypeOK, Backends, Targets, Phased, Compiled, Shape, Commands
<1>13. CASE StartProof
  BY <1>13 DEF StartProof, disk, Go, Exit, Raise, Command, Client, Runs, Typed, TypeOK, Backends, Targets, Phased, Compiled, Shape, Commands
<1>14. CASE AdvanceProof
  BY <1>14 DEF AdvanceProof, disk, Go, Exit, Raise, Command, Client, Runs, Typed, TypeOK, Backends, Targets, Phased, Compiled, Shape, Commands
<1>15. CASE ReadProof
  BY <1>15 DEF ReadProof, disk, Go, Exit, Raise, Command, Client, Runs, Typed, TypeOK, Backends, Targets, Phased, Compiled, Shape, Commands
<1>16. CASE ReadInput
  BY <1>16 DEF ReadInput, disk, Go, Exit, Raise, Command, Client, Runs, Typed, TypeOK, Backends, Targets, Phased, Compiled, Shape, Commands
<1>17. CASE ParseTeals
  BY <1>17 DEF ParseTeals, disk, Go, Exit, Raise, Command, Client, Runs, Typed, TypeOK, Backends, Targets, Phased, Compiled, Shape, Commands
<1>18. CASE Krun
  BY <1>18 DEF Krun, disk, Go, Exit, Raise, Command, Client, Runs, Typed, TypeOK, Backends, Targets, Phased, Compiled, Shape, Commands
<1>19. CASE Rerun
  BY <1>19 DEF Rerun, disk, Go, Exit, Raise, Command, Client, Runs, Typed, TypeOK, Backends, Targets, Phased, Compiled, Shape, Commands
<1>20. CASE ReadReason
  BY <1>20 DEF ReadReason, disk, Go, Exit, Raise, Command, Client, Runs, Typed, TypeOK, Backends, Targets, Phased, Compiled, Shape, Commands
<1>21. CASE Handler
  BY <1>21 DEF Handler, disk, Go, Exit, Raise, Command, Client, Runs, Typed, TypeOK, Backends, Targets, Phased, Compiled, Shape, Commands
<1>22. CASE Output
  BY <1>22 DEF Output, disk, Go, Exit, Raise, Command, Client, Runs, Typed, TypeOK, Backends, Targets, Phased, Compiled, Shape, Commands
<1>23. CASE UNCHANGED vars
  BY <1>23 DEF vars, disk, disk, Go, Exit, Raise, Command, Client, Runs, Typed, TypeOK, Backends, Targets, Phased, Compiled, Shape, Commands
<1> QED  BY <1>1, <1>2, <1>3, <1>4, <1>5, <1>6, <1>7, <1>8, <1>9, <1>10, <1>11, <1>12, <1>13, <1>14, <1>15, <1>16, <1>17, <1>18, <1>19, <1>20, <1>21, <1>22, <1>23 DEF Next, Process

\* No other step ends with 0: those that do know the verdict.
LEMMA StatusNext ==
  ASSUME Typed, Phased, StatusIsVerdict, [Next]_vars
  PROVE  StatusIsVerdict'
<1>1. CASE Edit
  BY <1>1 DEF Edit, disk, Go, Exit, Raise, Command, Client, Runs, Typed, TypeOK, Phased, StatusIsVerdict, Exited
<1>2. CASE Type
  BY <1>2 DEF Type, disk, Go, Exit, Raise, Command, Client, Runs, Typed, TypeOK, Phased, StatusIsVerdict, Exited
<1>3. CASE Ended
  BY <1>3 DEF Ended, disk, Go, Exit, Raise, Command, Client, Runs, Typed, TypeOK, Phased, StatusIsVerdict, Exited
<1>4. CASE Main
  BY <1>4 DEF Main, disk, Go, Exit, Raise, Command, Client, Runs, Typed, TypeOK, Phased, StatusIsVerdict, Exited
<1>5. CASE StartClient
  BY <1>5 DEF StartClient, disk, Go, Exit, Raise, Command, Client, Runs, Typed, TypeOK, Phased, StatusIsVerdict, Exited
<1>6. CASE MakeKAVM
  BY <1>6 DEF MakeKAVM, disk, Go, Exit, Raise, Command, Client, Runs, Typed, TypeOK, Phased, StatusIsVerdict, Exited
<1>7. CASE Kompile
  BY <1>7 DEF Kompile, disk, Go, Exit, Raise, Command, Client, Runs, Typed, TypeOK, Phased, StatusIsVerdict, Exited
<1>8. CASE ExecEnv
  BY <1>8 DEF ExecEnv, disk, Go, Exit, Raise, Command, Client, Runs, Typed, TypeOK, Phased, StatusIsVerdict, Exited
<1>9. CASE ExecProve
  BY <1>9 DEF ExecProve, disk, Go, Exit, Raise, Command, Client, Runs, Typed, TypeOK, Phased, StatusIsVerdict, Exited
<1>10. CASE ExecKoreRepl
  BY <1>10 DEF ExecKoreRepl, disk, Go, Exit, Raise, Command, Client, Runs, Typed, TypeOK, Phased, StatusIsVerdict, Exited
<1>11. CASE ExecKast
  BY <1>11 DEF ExecKast, disk, Go, Exit, Raise, Command, Client, Runs, Typed, TypeOK, Phased, StatusIsVerdict, Exited
<1>12. CASE MakeProofDir
  BY <1>12 DEF MakeProofDir, disk, Go, Exit, Raise, Command, Client, Runs, Typed, TypeOK, Phased, StatusIsVerdict, Exited
<1>13. CASE StartProof
  BY <1>13 DEF StartProof, disk, Go, Exit, Raise, Command, Client, Runs, Typed, TypeOK, Phased, StatusIsVerdict, Exited
<1>14. CASE AdvanceProof
  BY <1>14 DEF AdvanceProof, disk, Go, Exit, Raise, Command, Client, Runs, Typed, TypeOK, Phased, StatusIsVerdict, Exited
<1>15. CASE ReadProof
  BY <1>15 DEF ReadProof, disk, Go, Exit, Raise, Command, Client, Runs, Typed, TypeOK, Phased, StatusIsVerdict, Exited
<1>16. CASE ReadInput
  BY <1>16 DEF ReadInput, disk, Go, Exit, Raise, Command, Client, Runs, Typed, TypeOK, Phased, StatusIsVerdict, Exited
<1>17. CASE ParseTeals
  BY <1>17 DEF ParseTeals, disk, Go, Exit, Raise, Command, Client, Runs, Typed, TypeOK, Phased, StatusIsVerdict, Exited
<1>18. CASE Krun
  BY <1>18 DEF Krun, disk, Go, Exit, Raise, Command, Client, Runs, Typed, TypeOK, Phased, StatusIsVerdict, Exited
<1>19. CASE Rerun
  BY <1>19 DEF Rerun, disk, Go, Exit, Raise, Command, Client, Runs, Typed, TypeOK, Phased, StatusIsVerdict, Exited
<1>20. CASE ReadReason
  BY <1>20 DEF ReadReason, disk, Go, Exit, Raise, Command, Client, Runs, Typed, TypeOK, Phased, StatusIsVerdict, Exited
<1>21. CASE Handler
  BY <1>21 DEF Handler, disk, Go, Exit, Raise, Command, Client, Runs, Typed, TypeOK, Phased, StatusIsVerdict, Exited
<1>22. CASE Output
  BY <1>22 DEF Output, disk, Go, Exit, Raise, Command, Client, Runs, Typed, TypeOK, Phased, StatusIsVerdict, Exited
<1>23. CASE UNCHANGED vars
  BY <1>23 DEF vars, disk, disk, Go, Exit, Raise, Command, Client, Runs, Typed, TypeOK, Phased, StatusIsVerdict, Exited
<1> QED  BY <1>1, <1>2, <1>3, <1>4, <1>5, <1>6, <1>7, <1>8, <1>9, <1>10, <1>11, <1>12, <1>13, <1>14, <1>15, <1>16, <1>17, <1>18, <1>19, <1>20, <1>21, <1>22, <1>23 DEF Next, Process

\* The handlers raise, and what was shown stays shown.
LEMMA ReportedNext ==
  ASSUME Typed, Phased, Handled, FailureIsReported, [Next]_vars
  PROVE  FailureIsReported'
<1>1. CASE Edit
  BY <1>1 DEF Edit, disk, Go, Exit, Raise, Command, Client, Runs, Typed, TypeOK, Phased, Handled, Working, FailureIsReported, Exited
<1>2. CASE Type
  BY <1>2 DEF Type, disk, Go, Exit, Raise, Command, Client, Runs, Typed, TypeOK, Phased, Handled, Working, FailureIsReported, Exited
<1>3. CASE Ended
  BY <1>3 DEF Ended, disk, Go, Exit, Raise, Command, Client, Runs, Typed, TypeOK, Phased, Handled, Working, FailureIsReported, Exited
<1>4. CASE Main
  BY <1>4 DEF Main, disk, Go, Exit, Raise, Command, Client, Runs, Typed, TypeOK, Phased, Handled, Working, FailureIsReported, Exited
<1>5. CASE StartClient
  BY <1>5 DEF StartClient, disk, Go, Exit, Raise, Command, Client, Runs, Typed, TypeOK, Phased, Handled, Working, FailureIsReported, Exited
<1>6. CASE MakeKAVM
  BY <1>6 DEF MakeKAVM, disk, Go, Exit, Raise, Command, Client, Runs, Typed, TypeOK, Phased, Handled, Working, FailureIsReported, Exited
<1>7. CASE Kompile
  BY <1>7 DEF Kompile, disk, Go, Exit, Raise, Command, Client, Runs, Typed, TypeOK, Phased, Handled, Working, FailureIsReported, Exited
<1>8. CASE ExecEnv
  BY <1>8 DEF ExecEnv, disk, Go, Exit, Raise, Command, Client, Runs, Typed, TypeOK, Phased, Handled, Working, FailureIsReported, Exited
<1>9. CASE ExecProve
  BY <1>9 DEF ExecProve, disk, Go, Exit, Raise, Command, Client, Runs, Typed, TypeOK, Phased, Handled, Working, FailureIsReported, Exited
<1>10. CASE ExecKoreRepl
  BY <1>10 DEF ExecKoreRepl, disk, Go, Exit, Raise, Command, Client, Runs, Typed, TypeOK, Phased, Handled, Working, FailureIsReported, Exited
<1>11. CASE ExecKast
  BY <1>11 DEF ExecKast, disk, Go, Exit, Raise, Command, Client, Runs, Typed, TypeOK, Phased, Handled, Working, FailureIsReported, Exited
<1>12. CASE MakeProofDir
  BY <1>12 DEF MakeProofDir, disk, Go, Exit, Raise, Command, Client, Runs, Typed, TypeOK, Phased, Handled, Working, FailureIsReported, Exited
<1>13. CASE StartProof
  BY <1>13 DEF StartProof, disk, Go, Exit, Raise, Command, Client, Runs, Typed, TypeOK, Phased, Handled, Working, FailureIsReported, Exited
<1>14. CASE AdvanceProof
  BY <1>14 DEF AdvanceProof, disk, Go, Exit, Raise, Command, Client, Runs, Typed, TypeOK, Phased, Handled, Working, FailureIsReported, Exited
<1>15. CASE ReadProof
  BY <1>15 DEF ReadProof, disk, Go, Exit, Raise, Command, Client, Runs, Typed, TypeOK, Phased, Handled, Working, FailureIsReported, Exited
<1>16. CASE ReadInput
  BY <1>16 DEF ReadInput, disk, Go, Exit, Raise, Command, Client, Runs, Typed, TypeOK, Phased, Handled, Working, FailureIsReported, Exited
<1>17. CASE ParseTeals
  BY <1>17 DEF ParseTeals, disk, Go, Exit, Raise, Command, Client, Runs, Typed, TypeOK, Phased, Handled, Working, FailureIsReported, Exited
<1>18. CASE Krun
  BY <1>18 DEF Krun, disk, Go, Exit, Raise, Command, Client, Runs, Typed, TypeOK, Phased, Handled, Working, FailureIsReported, Exited
<1>19. CASE Rerun
  BY <1>19 DEF Rerun, disk, Go, Exit, Raise, Command, Client, Runs, Typed, TypeOK, Phased, Handled, Working, FailureIsReported, Exited
<1>20. CASE ReadReason
  BY <1>20 DEF ReadReason, disk, Go, Exit, Raise, Command, Client, Runs, Typed, TypeOK, Phased, Handled, Working, FailureIsReported, Exited
<1>21. CASE Handler
  BY <1>21 DEF Handler, disk, Go, Exit, Raise, Command, Client, Runs, Typed, TypeOK, Phased, Handled, Working, FailureIsReported, Exited
<1>22. CASE Output
  BY <1>22 DEF Output, disk, Go, Exit, Raise, Command, Client, Runs, Typed, TypeOK, Phased, Handled, Working, FailureIsReported, Exited
<1>23. CASE UNCHANGED vars
  BY <1>23 DEF vars, disk, disk, Go, Exit, Raise, Command, Client, Runs, Typed, TypeOK, Phased, Handled, Working, FailureIsReported, Exited
<1> QED  BY <1>1, <1>2, <1>3, <1>4, <1>5, <1>6, <1>7, <1>8, <1>9, <1>10, <1>11, <1>12, <1>13, <1>14, <1>15, <1>16, <1>17, <1>18, <1>19, <1>20, <1>21, <1>22, <1>23 DEF Next, Process

\* The sources are edited in the shell only.
LEMMA CurrentNext ==
  ASSUME Typed, Phased, Compiled, KompiledIsCurrent, [Next]_vars
  PROVE  KompiledIsCurrent'
<1>1. CASE Edit
  BY <1>1 DEF Edit, disk, Go, Exit, Raise, Command, Client, Runs, Typed, TypeOK, Phased, Compiled, KompiledIsCurrent, Exited, Backend
<1>2. CASE Type
  BY <1>2 DEF Type, disk, Go, Exit, Raise, Command, Client, Runs, Typed, TypeOK, Phased, Compiled, KompiledIsCurrent, Exited, Backend
<1>3. CASE Ended
  BY <1>3 DEF Ended, disk, Go, Exit, Raise, Command, Client, Runs, Typed, TypeOK, Phased, Compiled, KompiledIsCurrent, Exited, Backend
<1>4. CASE Main
  BY <1>4 DEF Main, disk, Go, Exit, Raise, Command, Client, Runs, Typed, TypeOK, Phased, Compiled, KompiledIsCurrent, Exited, Backend
<1>5. CASE StartClient
  BY <1>5 DEF StartClient, disk, Go, Exit, Raise, Command, Client, Runs, Typed, TypeOK, Phased, Compiled, KompiledIsCurrent, Exited, Backend
<1>6. CASE MakeKAVM
  BY <1>6 DEF MakeKAVM, disk, Go, Exit, Raise, Command, Client, Runs, Typed, TypeOK, Phased, Compiled, KompiledIsCurrent, Exited, Backend
<1>7. CASE Kompile
  BY <1>7 DEF Kompile, disk, Go, Exit, Raise, Command, Client, Runs, Typed, TypeOK, Phased, Compiled, KompiledIsCurrent, Exited, Backend
<1>8. CASE ExecEnv
  BY <1>8 DEF ExecEnv, disk, Go, Exit, Raise, Command, Client, Runs, Typed, TypeOK, Phased, Compiled, KompiledIsCurrent, Exited, Backend
<1>9. CASE ExecProve
  BY <1>9 DEF ExecProve, disk, Go, Exit, Raise, Command, Client, Runs, Typed, TypeOK, Phased, Compiled, KompiledIsCurrent, Exited, Backend
<1>10. CASE ExecKoreRepl
  BY <1>10 DEF ExecKoreRepl, disk, Go, Exit, Raise, Command, Client, Runs, Typed, TypeOK, Phased, Compiled, KompiledIsCurrent, Exited, Backend
<1>11. CASE ExecKast
  BY <1>11 DEF ExecKast, disk, Go, Exit, Raise, Command, Client, Runs, Typed, TypeOK, Phased, Compiled, KompiledIsCurrent, Exited, Backend
<1>12. CASE MakeProofDir
  BY <1>12 DEF MakeProofDir, disk, Go, Exit, Raise, Command, Client, Runs, Typed, TypeOK, Phased, Compiled, KompiledIsCurrent, Exited, Backend
<1>13. CASE StartProof
  BY <1>13 DEF StartProof, disk, Go, Exit, Raise, Command, Client, Runs, Typed, TypeOK, Phased, Compiled, KompiledIsCurrent, Exited, Backend
<1>14. CASE AdvanceProof
  BY <1>14 DEF AdvanceProof, disk, Go, Exit, Raise, Command, Client, Runs, Typed, TypeOK, Phased, Compiled, KompiledIsCurrent, Exited, Backend
<1>15. CASE ReadProof
  BY <1>15 DEF ReadProof, disk, Go, Exit, Raise, Command, Client, Runs, Typed, TypeOK, Phased, Compiled, KompiledIsCurrent, Exited, Backend
<1>16. CASE ReadInput
  BY <1>16 DEF ReadInput, disk, Go, Exit, Raise, Command, Client, Runs, Typed, TypeOK, Phased, Compiled, KompiledIsCurrent, Exited, Backend
<1>17. CASE ParseTeals
  BY <1>17 DEF ParseTeals, disk, Go, Exit, Raise, Command, Client, Runs, Typed, TypeOK, Phased, Compiled, KompiledIsCurrent, Exited, Backend
<1>18. CASE Krun
  BY <1>18 DEF Krun, disk, Go, Exit, Raise, Command, Client, Runs, Typed, TypeOK, Phased, Compiled, KompiledIsCurrent, Exited, Backend
<1>19. CASE Rerun
  BY <1>19 DEF Rerun, disk, Go, Exit, Raise, Command, Client, Runs, Typed, TypeOK, Phased, Compiled, KompiledIsCurrent, Exited, Backend
<1>20. CASE ReadReason
  BY <1>20 DEF ReadReason, disk, Go, Exit, Raise, Command, Client, Runs, Typed, TypeOK, Phased, Compiled, KompiledIsCurrent, Exited, Backend
<1>21. CASE Handler
  BY <1>21 DEF Handler, disk, Go, Exit, Raise, Command, Client, Runs, Typed, TypeOK, Phased, Compiled, KompiledIsCurrent, Exited, Backend
<1>22. CASE Output
  BY <1>22 DEF Output, disk, Go, Exit, Raise, Command, Client, Runs, Typed, TypeOK, Phased, Compiled, KompiledIsCurrent, Exited, Backend
<1>23. CASE UNCHANGED vars
  BY <1>23 DEF vars, disk, disk, Go, Exit, Raise, Command, Client, Runs, Typed, TypeOK, Phased, Compiled, KompiledIsCurrent, Exited, Backend
<1> QED  BY <1>1, <1>2, <1>3, <1>4, <1>5, <1>6, <1>7, <1>8, <1>9, <1>10, <1>11, <1>12, <1>13, <1>14, <1>15, <1>16, <1>17, <1>18, <1>19, <1>20, <1>21, <1>22, <1>23 DEF Next, Process

\* The whole invariant is inductive.
LEMMA InvNext == Inv /\ [Next]_vars => Inv'
  BY TypedNext, PhasedNext, HandledNext, CompiledNext, StatusNext, ReportedNext, CurrentNext
     DEF Inv

\* The invariant holds throughout.
LEMMA InvHolds == Spec => []Inv
  BY InitInv, InvNext, PTL DEF Spec

-----------------------------------------------------------------------------
(* What follows.                                                           *)

\* Every variable keeps its type, a status is there exactly at the end of a process,
\* and no command is executed before its directory is found (main, KAVMClient).
THEOREM TypeCorrect == Spec => []TypeOK
  BY InvHolds, PTL DEF Inv, Typed

\* A status of 0 from `kavm run`, `kavm prove` and `kavm kore-repl` is a verdict.
THEOREM StatusesAreVerdicts == Spec => []StatusIsVerdict
  BY InvHolds, PTL DEF Inv

\* No path from krun to the end of the process loses what the configuration says, and
\* none has anything to say of a krun that printed none.
THEOREM FailuresAreReported == Spec => []FailureIsReported
  BY InvHolds, PTL DEF Inv

\* A kompile that ends with 0 leaves a definition, and with a backend that it knows
\* one for that backend of the sources as they are.
THEOREM DefinitionsAreCurrent == Spec => []KompiledIsCurrent
  BY InvHolds, PTL DEF Inv

=============================================================================
