---------------------------- MODULE CommandLine -----------------------------
(***************************************************************************)
(* The command line of KAVM (__main__.py, kompile.py), run_avm_json        *)
(* (kavm.py), and its two callers in the client: what a process does with  *)
(* the definition directory, the proof directory and the tools it starts,  *)
(* and with which status it ends.  A shell types one command after the     *)
(* other; the K sources may be edited between two of them.                 *)
(*                                                                         *)
(* The tools (kompile, krun, kprove, kast, the parsers) are external: a    *)
(* tool succeeds or fails as `ending` and `provable` say, the same every   *)
(* time it is given the same input.  A krun that fails prints the          *)
(* configuration it has got to ("panic") or none ("crash").                *)
(***************************************************************************)
EXTENDS Naturals

CONSTANTS
  Dirs, Claims,    \* definition directories, claims of specification files
  None,            \* Python's None
  MaxCommands,     \* bound: commands typed
  MaxEdits         \* bound: edits of the K sources

ASSUME CommandAssumption == MaxCommands \in Nat /\ MaxEdits \in Nat /\ None \notin Dirs \cup {0, 1}

VARIABLES
  sources,        \* version of the K sources
  definitions,    \* directory |-> backend.txt (None: no definition) and version
  envDir,         \* KAVM_DEFINITION_DIR
  provable,       \* the claims that hold
  proofDir,       \* there is a directory .kavm
  proofs,         \* claim |-> its proof in .kavm
  pc, args, ending,
  error,          \* arguments of the RuntimeError run_avm_json handles
  raised,         \* the exception on its way up, if there is one
  shown,          \* what the user has been shown
  exit, commands

disk == <<sources, definitions, envDir, provable, proofDir, proofs>>
vars == <<disk, pc, args, ending, error, raised, shown, exit, commands>>

-----------------------------------------------------------------------------
(* The options the argument parser gives each command, and the two calls   *)
(* of run_avm_json that the client makes.                                  *)
Options == [dir : Dirs \cup {None}, backend : {None}, suffix : {None}, output : {None},
            definition : {None}, claim : {None}]
Targets     == {"llvm", "haskell"}
Backends    == Targets \cup {None}
Suffixes    == {".teal", ".json"}
KastOutputs == {"kore", "none"}
RunOutputs  == {"pretty", "json", "stderr-json"}
Kcfg        == {"kcfg-view", "kcfg-show", "kcfg-prove"}
Client      == {"evaluate", "intermediate"}

With(c, o)       == [k \in DOMAIN o \cup {"command"} |-> IF k = "command" THEN c ELSE o[k]]
Reading(o, s, m) == [o EXCEPT !.suffix = s, !.output = m]
Loading(o, c)    == [o EXCEPT !.dir = None, !.definition = o.dir, !.claim = c]

EnvOptions     == {With("env", [o EXCEPT !.dir = None]) : o \in Options}
\* --backend is any string: "other" stands for those kompile does not know.
KompileOptions == {With("kompile", [o EXCEPT !.backend = b]) :
                     o \in Options, b \in Backends \cup {"other"}}
ProveOptions   == {With("prove", [o EXCEPT !.claim = c]) : o \in Options, c \in Claims}
ReplOptions    == {With("kore-repl", Loading(o, c)) : o \in Options, c \in Claims}
KastOptions    == {With("kast", Reading(o, s, m)) :
                     o \in Options, s \in Suffixes, m \in KastOutputs}
RunOptions     == {With("run", Reading(o, s, m)) :
                     o \in Options, s \in Suffixes, m \in RunOutputs}
KcfgOptions    == {With(k, [o EXCEPT !.claim = c]) : o \in Options, c \in Claims, k \in Kcfg}
ClientCalls    == {With(k, [o EXCEPT !.dir = None]) : o \in Options, k \in Client}
Arguments == UNION {EnvOptions, KompileOptions, ProveOptions, ReplOptions, KastOptions,
                    RunOptions, KcfgOptions, ClientCalls}

Runs == {"run"} \cup Client

\* How run_avm_json is called: exec_run, _eval_transactions, intermediate_k_state
Check(c) == c = "evaluate"
RerunOnError(c) == c = "run"

Endings == {"fine", "panic", "crash", "malformed", "unparsable"}

Init ==
  /\ sources = 0
  /\ definitions \in [Dirs -> [backend : Backends, version : {0}]]
  /\ envDir \in Dirs \cup {None}
  /\ provable \in SUBSET Claims
  /\ proofDir = FALSE /\ proofs = [c \in Claims |-> "none"]
  /\ pc = "shell" /\ args = None /\ ending = "fine" /\ error = 0 /\ raised = None
  /\ shown = {} /\ exit = None /\ commands = 0

Command(cs) == args # None /\ args.command \in cs

\* sys.exit(code), or the end of main
Exit(code) ==
  /\ pc' = "exited" /\ exit' = code
  /\ UNCHANGED <<args, ending, error, raised, commands>>

\* An exception nobody handles ends the process with a traceback and status 1
Raise(e) ==
  /\ pc' = "exited" /\ exit' = 1 /\ raised' = e
  /\ UNCHANGED <<args, ending, error, commands>>

Go(to) ==
  /\ pc' = to
  /\ UNCHANGED <<args, ending, error, raised, shown, exit, commands>>

Edit ==
  /\ pc = "shell" /\ sources < MaxEdits
  /\ sources' = sources + 1
  /\ UNCHANGED <<definitions, envDir, provable, proofDir, proofs, pc, args, ending, error,
                 raised, shown, exit, commands>>

Type ==
  /\ pc = "shell" /\ commands < MaxCommands
  /\ args' \in Arguments
  /\ ending' \in IF args'.command \in Runs THEN Endings ELSE {"fine", "crash"}
  /\ pc' = "main" /\ commands' = commands + 1
  /\ error' = 0 /\ raised' = None /\ shown' = {} /\ exit' = None
  /\ UNCHANGED disk

\* The process is gone; what it leaves is on the disk
Ended ==
  /\ pc = "exited"
  /\ pc' = "shell" /\ args' = None /\ raised' = None /\ shown' = {} /\ exit' = None
  /\ ending' = "fine" /\ error' = 0
  /\ UNCHANGED <<disk, commands>>

-----------------------------------------------------------------------------
(* Every command: the definition directory, and KAVM on it.                *)
\* Faulty: nobody looks whether there is a definition directory.
MainUnchecked ==
  /\ pc = "main" /\ ~Command(Client)
  /\ args' = [args EXCEPT !.dir = IF args.dir # None THEN args.dir ELSE envDir]
  /\ pc' = "kavm"
  /\ UNCHANGED <<disk, ending, error, raised, shown, exit, commands>>

\* main: the definition directory is found for every command before it is executed
Main ==
  /\ pc = "main" /\ ~Command(Client)
  /\ \/ /\ args.dir # None \/ envDir # None
        /\ args' = [args EXCEPT !.dir = IF args.dir # None THEN args.dir ELSE envDir]
        /\ pc' = CASE args.command = "kompile" -> "kompile"
                   [] args.command = "kcfg-prove" -> "mkdir"
                   [] args.command \in {"env", "kore-repl"} -> "ready"
                   [] OTHER -> "kavm"
        /\ UNCHANGED <<ending, error, raised, shown, exit, commands>>
     \/ /\ args.dir = None /\ envDir = None
        /\ Raise("RuntimeError") /\ UNCHANGED shown
  /\ UNCHANGED disk

\* KAVMClient.__init__
StartClient ==
  /\ pc = "main" /\ Command(Client)
  /\ \/ /\ envDir # None
        /\ args' = [args EXCEPT !.dir = envDir] /\ pc' = "kavm"
        /\ UNCHANGED <<ending, error, raised, shown, exit, commands>>
     \/ envDir = None /\ Exit(1) /\ UNCHANGED shown
  /\ UNCHANGED disk

Backend == definitions[args.dir].backend

\* KAVM.__init__: reads backend.txt; kcfg-view and kcfg-show use .kavm
MakeKAVM ==
  /\ pc = "kavm"
  /\ \/ Backend = None /\ Raise("FileNotFoundError") /\ UNCHANGED shown
     \/ Backend # None /\ Command({"kompile"}) /\ Exit(0) /\ UNCHANGED shown
     \/ /\ Backend # None /\ Command({"kcfg-view", "kcfg-show"}) /\ ~proofDir
        /\ Raise("ValueError") /\ UNCHANGED shown
     \/ /\ Backend # None /\ ~Command({"kompile"})
        /\ Command({"kcfg-view", "kcfg-show"}) => proofDir
        /\ Go("ready")
  /\ UNCHANGED disk

\* Faulty: kompile does not run its tool when there is a definition already.
KompileOnce ==
  /\ pc = "kompile"
  /\ \/ /\ Backend = None /\ ending = "fine"
        /\ definitions' = [definitions EXCEPT ![args.dir] =
                             [backend |-> args.backend, version |-> sources]]
     \/ Backend # None /\ UNCHANGED definitions
  /\ Go("kavm")
  /\ UNCHANGED <<sources, envDir, provable, proofDir, proofs>>

\* kompile_haskell or generate_interpreter, if the backend is one of theirs, and
\* nothing otherwise; a tool that fails may have removed the definition there was
Kompile ==
  /\ pc = "kompile"
  /\ \/ /\ args.backend \in Targets /\ ending = "fine"
        /\ definitions' = [definitions EXCEPT ![args.dir] =
                             [backend |-> args.backend, version |-> sources]]
        /\ Go("kavm")
     \/ /\ args.backend \in Targets /\ ending # "fine"
        /\ definitions' \in {definitions, [definitions EXCEPT ![args.dir].backend = None]}
        /\ Raise("CalledProcessError") /\ UNCHANGED shown
     \/ /\ args.backend \notin Targets
        /\ Go("kavm") /\ UNCHANGED definitions
  /\ UNCHANGED <<sources, envDir, provable, proofDir, proofs>>

ExecEnv ==
  /\ pc = "ready" /\ Command({"env"})
  /\ shown' = {"environment"} /\ Exit(0) /\ UNCHANGED disk

\* exec_prove: only #Top is a proof
ExecProve ==
  /\ pc = "ready" /\ Command({"prove"})
  /\ \/ Backend = "llvm" /\ Raise("AttributeError") /\ UNCHANGED shown
     \/ Backend = "haskell" /\ ending # "fine" /\ Raise("RuntimeError") /\ UNCHANGED shown
     \/ /\ Backend = "haskell" /\ ending = "fine"
        /\ shown' = {"final"}
        /\ Exit(IF args.claim \in provable THEN 0 ELSE 1)
  /\ UNCHANGED disk

\* exec_kore_repl: its --definition is an option of its own, without a default
ExecKoreRepl ==
  /\ pc = "ready" /\ Command({"kore-repl"})
  /\ \/ /\ args.definition # None /\ definitions[args.definition].backend = "haskell"
        /\ ending = "fine" /\ args.claim \in provable
        /\ Exit(0)
     \/ /\ \/ args.definition = None \/ ending # "fine" \/ args.claim \notin provable
           \/ args.definition # None /\ definitions[args.definition].backend # "haskell"
        /\ Raise("RuntimeError")
  /\ UNCHANGED <<disk, shown>>

ExecKast ==
  /\ pc = "ready" /\ Command({"kast"})
  /\ \/ args.suffix # ".teal" /\ Raise("RuntimeError") /\ UNCHANGED shown
     \/ /\ args.suffix = ".teal"
        /\ shown' = IF ending = "fine" /\ args.output = "none" THEN {} ELSE {"final"}
        /\ Exit(IF ending = "fine" THEN 0 ELSE 1)
  /\ UNCHANGED disk

-----------------------------------------------------------------------------
(* The KCFG commands.                                                      *)
MakeProofDir ==
  /\ pc = "mkdir"
  /\ proofDir' = TRUE /\ Go("kavm")
  /\ UNCHANGED <<sources, definitions, envDir, provable, proofs>>

\* exec_kcfg_prove: a new proof takes the place of the one there is
StartProof ==
  /\ pc = "ready" /\ Command({"kcfg-prove"})
  /\ \/ Backend = "llvm" /\ Raise("AttributeError") /\ UNCHANGED <<shown, proofs>>
     \/ /\ Backend = "haskell"
        /\ proofs' = [proofs EXCEPT ![args.claim] = "pending"] /\ Go("proving")
  /\ UNCHANGED <<sources, definitions, envDir, provable, proofDir>>

\* advance_proof: every step is written; the prover may stop with an error
AdvanceProof ==
  /\ pc = "proving"
  /\ \/ /\ ending = "fine"
        /\ proofs' = [proofs EXCEPT ![args.claim] =
                        IF args.claim \in provable THEN "passed" ELSE "failed"]
        /\ Exit(0)
     \/ ending # "fine" /\ Raise("RuntimeError") /\ UNCHANGED proofs
  /\ UNCHANGED <<sources, definitions, envDir, provable, proofDir, shown>>

\* exec_kcfg_view and exec_kcfg_show
ReadProof ==
  /\ pc = "ready" /\ Command({"kcfg-view", "kcfg-show"})
  /\ \/ proofs[args.claim] = "none" /\ Raise("ValueError") /\ UNCHANGED shown
     \/ /\ proofs[args.claim] # "none"
        /\ shown' = {proofs[args.claim]} /\ Exit(0)
  /\ UNCHANGED disk

-----------------------------------------------------------------------------
(* run_avm_json and its callers.                                           *)
\* exec_run reads a .json file; the client makes its scenario itself
ReadInput ==
  /\ pc = "ready" /\ Command(Runs)
  /\ \/ args.suffix = ".teal" /\ shown' = {"unrecognized"} /\ Exit(1)
     \/ args.suffix # ".teal" /\ ending = "malformed" /\ Raise("ValueError") /\ UNCHANGED shown
     \/ args.suffix # ".teal" /\ ending # "malformed" /\ Go("parse")
  /\ UNCHANGED disk

\* parse_teals: the parser is a process of its own, checked
ParseTeals ==
  /\ pc = "parse"
  /\ \/ ending = "unparsable" /\ Raise("CalledProcessError") /\ UNCHANGED shown
     \/ ending # "unparsable" /\ Go("krun")
  /\ UNCHANGED disk

\* If krun fails, _krun raises an error that carries its output when it is told to
\* check, and run_avm_json one that does not otherwise.  The scenario of
\* intermediate_k_state always fails: it has no transaction, #evalFirstTx has no rule
\* for an empty deque, and the return code is still the one it starts with.
Krun ==
  /\ pc = "krun"
  /\ \/ ending = "fine" /\ ~Command({"intermediate"}) /\ Go("output")
     \/ /\ ending # "fine" \/ Command({"intermediate"})
        /\ pc' = "failed" /\ error' = IF Check(args.command) THEN 3 ELSE 1
        /\ UNCHANGED <<args, ending, raised, shown, exit, commands>>
  /\ UNCHANGED disk

\* The second run ends like the first; its status and its stderr are not looked at.
Rerun ==
  /\ pc = "failed" /\ RerunOnError(args.command)
  /\ pc' = "caller" /\ error' = 1 /\ raised' = "RuntimeError"
  /\ shown' = IF ending = "crash" THEN {} ELSE {"final"}
  /\ UNCHANGED <<disk, args, ending, exit, commands>>

\* Faulty: every error of krun is taken for one without output.
ReadNoReason ==
  /\ pc = "failed" /\ ~RerunOnError(args.command)
  /\ pc' = "caller" /\ raised' = "IndexError" /\ error' = 1 /\ shown' = {}
  /\ UNCHANGED <<disk, args, ending, exit, commands>>

\* Without a second run: the reason is read from krun's output
ReadReason ==
  /\ pc = "failed" /\ ~RerunOnError(args.command)
  /\ pc' = "caller"
  /\ raised' = CASE error = 1 -> "IndexError"
                 [] error = 3 /\ ending = "crash" -> "ParseError"
                 [] OTHER -> "RuntimeError"
  /\ error' = 1
  /\ shown' = IF raised' = "RuntimeError" THEN {"reason"} ELSE {}
  /\ UNCHANGED <<disk, args, ending, exit, commands>>

\* Faulty: exec_run logs the error, whatever it carries, and ends.
HandlerLogs ==
  /\ pc = "caller"
  /\ IF Command({"run"}) THEN Exit(0) ELSE Raise("AlgodHTTPError")
  /\ UNCHANGED <<disk, shown>>

\* What the caller makes of the error: exec_run's handler takes it apart into three,
\* which it never has; _eval_transactions turns a RuntimeError into one of algod's
Handler ==
  /\ pc = "caller"
  /\ Raise(CASE args.command = "run" /\ raised = "RuntimeError" /\ error # 3 -> "ValueError"
             [] args.command = "evaluate" /\ raised = "RuntimeError" -> "AlgodHTTPError"
             [] OTHER -> raised)
  /\ UNCHANGED <<disk, shown>>

\* The end of a run that went well.  exec_run knows four of the modes it accepts
Output ==
  /\ pc = "output"
  /\ shown' = IF args.output \in {"json", "kast", "none"} THEN {} ELSE {"final"}
  /\ Exit(0) /\ UNCHANGED disk

Process ==
  \/ Main \/ StartClient \/ MakeKAVM \/ Kompile \/ ExecEnv \/ ExecProve \/ ExecKoreRepl
  \/ ExecKast \/ MakeProofDir \/ StartProof \/ AdvanceProof \/ ReadProof \/ ReadInput
  \/ ParseTeals \/ Krun \/ Rerun \/ ReadReason \/ Handler \/ Output
Next == Edit \/ Type \/ Ended \/ Process
Spec == Init /\ [][Next]_vars

-----------------------------------------------------------------------------
(* Properties.                                                             *)
Exited(cs) == pc = "exited" /\ Command(cs)

TypeOK ==
  /\ sources \in 0..MaxEdits
  /\ definitions \in [Dirs -> [backend : Backends, version : 0..MaxEdits]]
  /\ proofs \in [Claims -> {"none", "pending", "passed", "failed"}]
  /\ error \in {0, 1, 3} /\ exit \in {None, 0, 1}
  /\ (exit # None) = (pc = "exited")
  /\ pc \notin {"shell", "main", "exited"} => args.dir \in Dirs

\* Scripts go by the status: `kavm run` and `kavm prove` end with 0 only if the
\* scenario ended with its expected code, or the claim was proved.
StatusIsVerdict ==
  /\ Exited({"run"}) /\ exit = 0 => ending = "fine"
  /\ Exited({"prove", "kore-repl"}) /\ exit = 0 => args.claim \in provable

\* Who started a run that krun ends in a configuration learns how it failed, although
\* the error is taken apart in three places: `kavm run` shows the configuration of
\* a second run (rerun_on_error), and a group that is rejected reaches the SDK as
\* algod's AlgodHTTPError with the reason.  Neither is so, and both callers are left
\* without a word, when krun crashes and prints no configuration.
FailureIsReported ==
  /\ Exited({"run"}) /\ error # 0 => ("final" \in shown <=> ending # "crash")
  /\ Exited({"evaluate"}) /\ error # 0 =>
       (raised = "AlgodHTTPError" /\ "reason" \in shown <=> ending # "crash")

\* After `kavm kompile` ends with 0 there is a definition in the directory; with
\* --backend llvm or haskell it is one for that backend of the sources as they are,
\* whatever was there before.  With any other value, or without the option, nothing
\* is compiled, and an old definition will do.
KompiledIsCurrent ==
  Exited({"kompile"}) /\ exit = 0 =>
    /\ Backend # None
    /\ args.backend \in Targets =>
         definitions[args.dir] = [backend |-> args.backend, version |-> sources]

=============================================================================
