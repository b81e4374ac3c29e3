---------------------------- MODULE ParserProcess ----------------------------
(***************************************************************************)
(* parseSnapshot: the client runs the bundled parser as a child process    *)
(* and reads its output.  The child may fail to start, exit, crash or hang *)
(* and may have forked a helper; 'close' comes once nobody holds the pipe  *)
(* any more.  The timer, 'error' and 'close' race for the result.          *)
(***************************************************************************)
EXTENDS Naturals, FiniteSets

VARIABLES platform,
          forks,     \* whether the parser starts a helper
          at,        \* "verify", "start", "running", "settled", "done"
          alive,     \* processes that hold the pipe
          code,      \* how the parser ended
          timer,     \* "off", "armed", "fired", "cleared"
          output,    \* canonical.json
          dir,       \* whether the output directory is there
          settled,   \* what executeParser was settled with first
          result     \* what parseSnapshot returns or throws

vars == <<platform, forks, at, alive, code, timer, output, dir, settled, result>>

Platforms == {"linux-x64", "win32-x64"}
Init ==
  /\ platform \in Platforms /\ forks \in BOOLEAN
  /\ at = "verify" /\ alive = {} /\ code = "none"
  /\ timer = "off" /\ output = "absent" /\ dir = FALSE
  /\ settled = "none" /\ result = "none"

-----------------------------------------------------------------------------
\* The manifest is of this platform, the binary a regular (on Linux an
\* executable) file with the manifest's hash.
Verify ==
  /\ at = "verify"
  /\ \/ at' = "start" /\ dir' = TRUE /\ UNCHANGED result
     \/ /\ \E e \in {"PARSER_INPUT_INVALID", "PARSER_MANIFEST_INVALID", "PARSER_BINARY_INVALID",
                     "PARSER_BINARY_HASH_MISMATCH"} : result' = e
        /\ at' = "done" /\ UNCHANGED dir
  /\ UNCHANGED <<platform, forks, alive, code, timer, output, settled>>

Spawn ==
  /\ at = "start"
  /\ at' = "running"
  /\ timer' = "armed"
  /\ \/ alive' = {"parser"} /\ UNCHANGED code
     \/ alive' = {} /\ code' = "not started"
  /\ UNCHANGED <<platform, forks, output, dir, settled, result>>

\* The parser at work.
Fork ==
  /\ "parser" \in alive /\ forks
  /\ alive' = alive \cup {"helper"}
  /\ UNCHANGED <<platform, forks, at, code, timer, output, dir, settled, result>>

WriteOutput ==
  /\ "parser" \in alive
  /\ output' = IF output = "absent" THEN "partial" ELSE "whole"
  /\ UNCHANGED <<platform, forks, at, alive, code, timer, dir, settled, result>>

ExitParser ==
  /\ "parser" \in alive
  /\ alive' = alive \ {"parser"}
  /\ code' \in (IF output = "whole" THEN {"0"} ELSE {}) \cup {"1", "signal"}
  /\ UNCHANGED <<platform, forks, at, timer, output, dir, settled, result>>

ExitHelper ==
  /\ "helper" \in alive
  /\ alive' = alive \ {"helper"}
  /\ UNCHANGED <<platform, forks, at, code, timer, output, dir, settled, result>>

-----------------------------------------------------------------------------
\* Mutation: a later event settles the promise again.
FinishAgain(r) ==
  /\ at \in {"running", "settled"}
  /\ at' = "settled" /\ settled' = r
  /\ timer' = IF timer = "armed" THEN "cleared" ELSE timer

\* finish: the first event counts.
Finish(r) ==
  /\ at = "running"
  /\ at' = "settled" /\ settled' = r
  /\ timer' = IF timer = "armed" THEN "cleared" ELSE timer

TimedOut == timer = "fired"

\* Mutation: only the parser itself is killed.
KilledParserOnly == {"parser"}

\* On Linux the parser leads a process group of its own, which is killed.
Killed == IF platform = "linux-x64" THEN {"parser", "helper"} ELSE {"parser"}

\* The timer: what cannot be killed is given up.
Timeout ==
  /\ at = "running" /\ timer = "armed"
  /\ \/ /\ timer' = "fired"
        /\ alive' = alive \ Killed
        /\ code' = IF "parser" \in alive THEN "signal" ELSE code
        /\ UNCHANGED <<at, settled>>
     \/ /\ at' = "settled" /\ settled' = "PARSER_TIMEOUT" /\ timer' = "fired"
        /\ UNCHANGED <<alive, code>>
  /\ UNCHANGED <<platform, forks, output, dir, result>>

\* 'error'
OnError ==
  /\ code = "not started"
  /\ code' = "reported"
  /\ Finish(IF TimedOut THEN "PARSER_TIMEOUT" ELSE "ENOENT")
  /\ UNCHANGED <<platform, forks, alive, output, dir, result>>

\* Mutation: how the parser ended is not looked at.
ClosedAnyhow == IF TimedOut THEN "PARSER_TIMEOUT" ELSE "ok"

Closed == CASE TimedOut                -> "PARSER_TIMEOUT"
            [] ~TimedOut /\ code # "0" -> "PARSER_FAILED"
            [] OTHER                   -> "ok"

\* 'close', which also follows an 'error'.
OnClose ==
  /\ code \in {"0", "1", "signal", "reported"} /\ alive = {}
  /\ Finish(Closed)
  /\ UNCHANGED <<platform, forks, alive, code, output, dir, result>>

\* Mutation: the directory stays if the parser fails.
ReadLeavingDir ==
  /\ at = "settled"
  /\ at' = "done"
  /\ IF settled = "ok"
     THEN dir' = FALSE /\ result' \in {"ok", "PARSER_OUTPUT_INVALID"}
     ELSE dir' = dir /\ result' = settled
  /\ UNCHANGED <<platform, forks, alive, code, timer, output, settled>>

\* The output is read and validated; its directory is removed in any case.
Read ==
  /\ at = "settled"
  /\ at' = "done"
  /\ dir' = FALSE
  /\ result' \in (IF settled = "ok"
                  THEN {"ok", "PARSER_OUTPUT_INVALID", "PARSER_OUTPUT_TOO_LARGE", "SYNC_PAYLOAD_INVALID"}
                  ELSE {settled})
  /\ UNCHANGED <<platform, forks, alive, code, timer, output, settled>>

Client == Verify \/ Spawn \/ Timeout \/ OnError \/ OnClose \/ Read
Parser == Fork \/ WriteOutput \/ ExitParser \/ ExitHelper

Next == Client \/ Parser

\* Nothing is assumed of the parser: it may hang.
Spec == Init /\ [][Next]_vars /\ WF_vars(Client)

-----------------------------------------------------------------------------
TypeOK ==
  /\ platform \in Platforms /\ forks \in BOOLEAN
  /\ at \in {"verify", "start", "running", "settled", "done"}
  /\ alive \subseteq {"parser", "helper"}
  /\ code \in {"none", "0", "1", "signal", "not started", "reported"}
  /\ timer \in {"off", "armed", "fired", "cleared"}
  /\ timer = "armed" <=> at = "running" /\ ~TimedOut
  /\ output \in {"absent", "partial", "whole"} /\ dir \in BOOLEAN

\* A snapshot is only ever returned from a whole output of a parser that ended
\* by itself, in time and well, and when nothing writes to it any more.
OnlyWholeOutput ==
  result = "ok" => output = "whole" /\ code = "0" /\ ~TimedOut /\ alive = {}

\* Whatever happens, the output directory is gone afterwards.
DirectoryRemoved == at = "done" => ~dir

\* The first event decides, even if others follow.
SettledOnce == [][settled # "none" => settled' = settled]_vars

\* Whatever the parser does, it has one outcome, and it leaves nothing behind.
ParserOutcome == [](OnlyWholeOutput /\ DirectoryRemoved) /\ SettledOnce

\* A parser that hangs is ended by the timer; on Windows only a helper that
\* holds the pipe can keep parseSnapshot waiting.
HangEnds == (platform = "linux-x64" \/ ~forks) ~> at = "done"
=============================================================================
