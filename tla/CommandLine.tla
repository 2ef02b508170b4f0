---------------------------- MODULE CommandLine -----------------------------
(***************************************************************************)
(* The command line, cli.py, as processes that may share a receipt path.   *)
(*                                                                         *)
(* A process parses its arguments, reads its documents, runs one command   *)
(* and may publish a receipt: it writes a temporary file beside the target *)
(* and links it to the target's name.  Another process may publish under   *)
(* the same name, and a process may be killed between any two steps.       *)
(***************************************************************************)
EXTENDS Naturals, FiniteSets

CONSTANTS Processes

ASSUME ProcessAssumption == "nobody" \notin Processes

Commands == {"search", "describe", "run", "batch", "verify-certificate",
             "verify-certificate-lean", "obligation-schema", "check-obligations",
             "replay-obligations"}

VARIABLES
    step,       \* "parse", "read", "execute", "write", "link", "unlink", "exit", "killed"
    command,    \* the parsed command, "" before
    options,    \* of --receipt-output ("receipt") and --quiet-success ("quiet")
    result,     \* status of the result to print
    code,       \* exit_code
    temporary,  \* processes whose temporary file exists
    target,     \* whose receipt the shared name holds, if any
    printed     \* processes that printed their result

cliVars == <<step, command, options, result, code, temporary, target, printed>>

Nobody == "nobody"

CommandInit ==
    /\ step = [p \in Processes |-> "parse"]
    /\ command = [p \in Processes |-> ""]
    /\ options = [p \in Processes |-> {}]
    /\ result = [p \in Processes |-> "none"]
    /\ code = [p \in Processes |-> 0]
    /\ temporary = {} /\ target = Nobody /\ printed = {}

\* build_parser: a wrong command line is a CalculatorError.
Parse(p) ==
    /\ step[p] = "parse"
    /\ \E c \in Commands, o \in SUBSET {"receipt", "quiet"} :
         /\ "quiet" \in o => c = "check-obligations"
         /\ "receipt" \in o => c \in {"check-obligations", "replay-obligations"}
         /\ command' = [command EXCEPT ![p] = c]
         /\ options' = [options EXCEPT ![p] = o]
    /\ step' = [step EXCEPT ![p] = "read"]
    /\ UNCHANGED <<result, code, temporary, target, printed>>

\* raise CalculatorError, wherever: an error envelope and exit code 2.
Raise(p) ==
    /\ result' = [result EXCEPT ![p] = "error"]
    /\ code' = [code EXCEPT ![p] = 2]

ParseFails(p) ==
    /\ step[p] = "parse"
    /\ Raise(p)
    /\ step' = [step EXCEPT ![p] = "exit"]
    /\ UNCHANGED <<command, options, temporary, target, printed>>

ReadsDocument(p) ==
    command[p] \in {"batch", "verify-certificate", "verify-certificate-lean",
                    "check-obligations", "replay-obligations"}

\* _batch_items, _certificate_value, _json_document: unreadable, too long, no
\* JSON or of the wrong shape.
ReadFails(p) ==
    /\ step[p] = "read" /\ ReadsDocument(p)
    /\ Raise(p)
    /\ step' = [step EXCEPT ![p] = "exit"]
    /\ UNCHANGED <<command, options, temporary, target, printed>>

Read(p) ==
    /\ step[p] = "read"
    /\ step' = [step EXCEPT ![p] = "execute"]
    /\ UNCHANGED <<command, options, result, code, temporary, target, printed>>

\* What each command can return; a raised error is "error" as well.
CommandStatuses(c) ==
    CASE c = "check-obligations" -> {"checked", "attention_required", "error"}
      [] c = "replay-obligations" -> {"matched", "mismatch", "error"}
      [] c = "batch" -> {"ok", "partial", "error"}
      [] c = "run" -> {"ok", "uncertain", "error"}
      [] c = "obligation-schema" -> {"none"}
      [] OTHER -> {"ok", "error"}

ExitCode(c, status) ==
    CASE status = "error" -> 2
      [] c = "check-obligations" /\ status = "attention_required" -> 1
      [] c = "replay-obligations" /\ status \notin {"matched", "error"} -> 1
      [] OTHER -> 0

Execute(p) ==
    /\ step[p] = "execute"
    /\ \E s \in CommandStatuses(command[p]) :
         /\ result' = [result EXCEPT ![p] = s]
         /\ code' = [code EXCEPT ![p] = ExitCode(command[p], s)]
         /\ step' = [step EXCEPT ![p] = IF "receipt" \in options[p] /\ s # "error"
                                        THEN "write" ELSE "exit"]
    /\ UNCHANGED <<command, options, temporary, target, printed>>

\* _write_new_json: mkstemp, write and fsync, or an OSError on the way.
WriteTemporary(p) ==
    /\ step[p] = "write"
    /\ \/ temporary' = temporary \cup {p}
          /\ step' = [step EXCEPT ![p] = "link"]
          /\ UNCHANGED <<result, code>>
       \/ \E created \in {temporary, temporary \cup {p}} :
            /\ temporary' = created
            /\ step' = [step EXCEPT ![p] = "unlink"]
            /\ Raise(p)
    /\ UNCHANGED <<command, options, target, printed>>

\* os.replace instead of os.link.
LinkReplaces(p) ==
    /\ step[p] = "link"
    /\ target' = p
    /\ step' = [step EXCEPT ![p] = "unlink"]
    /\ UNCHANGED <<command, options, result, code, temporary, printed>>

\* os.link publishes the complete file, or fails on an existing name.
Link(p) ==
    /\ step[p] = "link"
    /\ IF target = Nobody
       THEN target' = p /\ UNCHANGED <<result, code>>
       ELSE UNCHANGED target /\ Raise(p)
    /\ step' = [step EXCEPT ![p] = "unlink"]
    /\ UNCHANGED <<command, options, temporary, printed>>

\* finally: the temporary name goes on every path.
Unlink(p) ==
    /\ step[p] = "unlink"
    /\ temporary' = temporary \ {p}
    /\ step' = [step EXCEPT ![p] = "exit"]
    /\ UNCHANGED <<command, options, result, code, target, printed>>

\* The result is printed unless it is the success --quiet-success asks to hide.
Exit(p) ==
    /\ step[p] = "exit" /\ p \notin printed
    /\ "quiet" \notin options[p] \/ code[p] # 0
    /\ printed' = printed \cup {p}
    /\ UNCHANGED <<step, command, options, result, code, temporary, target>>

Kill(p) ==
    /\ step[p] \notin {"exit", "killed"}
    /\ step' = [step EXCEPT ![p] = "killed"]
    /\ UNCHANGED <<command, options, result, code, temporary, target, printed>>

CommandNext == \E p \in Processes :
    \/ Parse(p) \/ ParseFails(p) \/ Read(p) \/ ReadFails(p) \/ Execute(p)
    \/ WriteTemporary(p) \/ Link(p) \/ Unlink(p) \/ Exit(p) \/ Kill(p)

CommandSpec == CommandInit /\ [][CommandNext]_cliVars

-----------------------------------------------------------------------------
(* Properties.                                                             *)

\* A process that ends without an error and was asked for a receipt left its
\* own complete receipt under that name, however many processes share the
\* name and whoever was killed; one that refuses, silently or not, left none.
ReceiptIsOwn ==
    \A p \in Processes : step[p] = "exit" =>
        /\ "receipt" \in options[p] => (code[p] \in {0, 1} <=> target = p)
        /\ p \notin temporary
        /\ code[p] # 0 => result[p] \notin {"checked", "matched"}

-----------------------------------------------------------------------------
(* The inductive invariant: where a process stands says whose receipt the  *)
(* shared name may hold and whether its own temporary file may exist.      *)

CommandTypeOK ==
    /\ step \in [Processes -> {"parse", "read", "execute", "write", "link", "unlink",
                               "exit", "killed"}]
    /\ command \in [Processes -> Commands \cup {""}]
    /\ options \in [Processes -> SUBSET {"receipt", "quiet"}]
    /\ result \in [Processes -> {"none", "ok", "uncertain", "partial", "checked",
                                 "attention_required", "matched", "mismatch", "error"}]
    /\ code \in [Processes -> {0, 1, 2}]
    /\ temporary \subseteq Processes
    /\ target \in Processes \cup {Nobody}
    /\ printed \subseteq Processes

ProcessInPlace(p) ==
    /\ step[p] \in {"parse", "read", "execute", "write", "link"} => target # p
    /\ step[p] \in {"parse", "read", "execute", "write", "exit"} => p \notin temporary
    /\ step[p] = "parse" => options[p] = {}
    /\ step[p] \in {"write", "link"} => "receipt" \in options[p] /\ code[p] \in {0, 1}
    /\ step[p] \in {"unlink", "exit"} /\ "receipt" \in options[p] =>
         (code[p] \in {0, 1} <=> target = p)
    /\ code[p] # 0 => result[p] \notin {"checked", "matched"}

CommandInvariant == CommandTypeOK /\ \A p \in Processes : ProcessInPlace(p)
=============================================================================
