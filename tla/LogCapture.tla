----------------------------- MODULE LogCapture -----------------------------
(***************************************************************************)
(* The end of `tdvmm run`: the stop, the reports, the capture of every     *)
(* service's log over COM2 (--logs-dir), the exit code, and the wall-clock *)
(* watchdog that may end the process from its own thread.  Beside it, the  *)
(* other writer of the same files: the scan of the guest's console (COM1), *)
(* which appends each line to the file of the service that printed it.     *)
(*                                                                         *)
(* One thread runs the host code and, through KVM_RUN, the guest: pc says  *)
(* where that thread is.  Requests and replies cross the UART in pieces    *)
(* (units); the last unit of a line carries its newline.  A log is the     *)
(* sequence of its byte positions 1, 2, ...; a byte position whose         *)
(* character was split between two chunks is captured as Lost.             *)
(***************************************************************************)
EXTENDS Naturals, Sequences, FiniteSets, SequencesExt

CONSTANTS
  ServiceSeq, \* LogsCapture.services
  Unsafe,     \* the names that are not a single safe path component
  Wide,       \* positions p such that p and p+1 are one character
  Blank,      \* positions that are an empty log line
  ChunkBytes, \* MAX_LOGS_CHUNK_BYTES
  Escape,     \* units JSON may need for one byte of data
  TxCap,      \* TX_BUF_CAP
  FifoSize,   \* the UART's receive FIFO
  Logged,     \* the lengths the logs have when the run stops
  Codes,      \* the codes a driver finishes with
  MaxBusy,    \* bound: what the guest logs, prints and forwards during the capture
  Printer,    \* the service whose container prints to the console
  PrintUnits, \* bound: the units of the line it prints
  TeeCap,     \* CONSOLE_TEE_CAP
  PartialCap, \* PARTIAL_CAP
  Residue,    \* the file of the lines no service is named in
  None

Services == ToSet(ServiceSeq)

\* ConsoleScan::new picks a residue name that no service has.
Stems == Services \cup {Residue}

\* Escape * ChunkBytes and the rest of the line stay below the host's cap, as
\* 6 * 128 KiB stays below 1 MiB.  An empty line is a newline, which is never a
\* byte of a longer character.
ASSUME CaptureAssumption ==
  /\ ServiceSeq \in Seq(Services) /\ None \notin Nat
  /\ ChunkBytes \in Nat \ {0} /\ Escape \in Nat \ {0} /\ FifoSize \in Nat \ {0}
  /\ TxCap \in Nat /\ Escape * ChunkBytes + 1 <= TxCap
  /\ Wide \subseteq Nat /\ Blank \subseteq Nat \ {0}
  /\ \A p \in Wide : p \notin Blank /\ p + 1 \notin Blank
  /\ MaxBusy \in Nat
  /\ Logged \in [Services -> Nat] /\ Codes \subseteq Nat
  /\ Printer \in Services /\ PrintUnits \in Nat /\ Residue \notin Services
  /\ TeeCap \in Nat \ {0} /\ PartialCap \in Nat

VARIABLES
  pc,       \* where the vCPU thread is
  stop,     \* StopReason
  verdict,  \* the exit value of DriverRun's verdict
  watchdog, \* the wall-clock watchdog: off, armed, fired
  exit,     \* the process's exit code
  svc,      \* index of the service being captured, 0 for the ping
  cursor,   \* the paging cursor
  raw,      \* what was captured of it
  id,       \* the id of the request in flight
  pend,     \* ControlChannel.pending_rx
  fifo,     \* the UART's receive FIFO
  tx,       \* ControlChannel.tx
  inbuf,    \* what the agent has read of a line
  out,      \* what the agent has to write of a line
  schema,   \* the wire schema of the agent in the artifact
  finished, \* Agent.finished
  busy,     \* bytes logged, units printed and events forwarded since the stop
  len,      \* len[s]: length of the log of s
  base,     \* history: its length when the run stopped
  printed,  \* console units the guest has written to COM1
  tee,      \* the tee of COM1's writer
  partial,  \* ConsoleScan.partial
  handle,   \* ConsoleScan.files: none, open (late: by the last flush), gone
  file,     \* file[s]: what <s>.log holds, the pulled text and console units
  pulled,   \* history: services whose file the capture wrote
  warned,   \* services a warning was printed for
  fault,    \* history: what went wrong in the guest or ran out
  decided   \* history: the exit code as of the stop

hostVars == <<stop, verdict, watchdog, exit, decided>>
pageVars == <<svc, cursor, raw, id>>
agentVars == <<inbuf, out, schema, finished, busy>>
scanVars == <<tee, partial, handle>>
consoleVars == <<printed, scanVars>>
reportVars == <<file, pulled, warned, consoleVars>>
vars == <<pc, hostVars, pageVars, pend, fifo, tx, agentVars, len, base,
          reportVars, fault>>

\* A file the scan has just opened, or that nobody has written in this run.
NoFile == [pull |-> None, con |-> <<>>]

Init ==
  /\ pc = "start" /\ stop = None /\ verdict = None
  /\ watchdog = "off" /\ exit = None /\ decided = None
  /\ svc = 0 /\ cursor = 0 /\ raw = <<>> /\ id = 0
  /\ pend = <<>> /\ fifo = <<>> /\ tx = <<>> /\ inbuf = <<>> /\ out = <<>>
  /\ schema \in {1, 2} /\ finished = FALSE /\ busy = 0
  /\ len = [s \in Services |-> 0] /\ base = len
  /\ file = [s \in Stems |-> NoFile] /\ pulled = {} /\ warned = {} /\ fault = {}
  /\ printed = 0 /\ tee = <<>> /\ partial = <<>>
  /\ handle = [s \in Stems |-> "none"]
-----------------------------------------------------------------------------
(* Lines. *)

\* Unit i of the n units of a line; the last one ends with the newline.
Unit(line, i, n) == [line |-> line, i |-> i, n |-> n]
Units(line, n) == [i \in 1..n |-> Unit(line, i, n)]
IsLast(u) == u.i = u.n

\* A line without an id: an event the agent forwards.
EventLine(kind) == [id |-> None, kind |-> kind]

\* A byte lost to the conversion to UTF-8.
Lost == 0

\* Reply, for a ping or for a page of a log.
Reply(req, ok, data, eof) ==
  [id |-> req.id, kind |-> "reply", ok |-> ok, schema |-> schema, data |-> data,
   next |-> req.cursor + Len(data), eof |-> eof]

-----------------------------------------------------------------------------
(* The console: COM1's writer and ConsoleScan. *)

Alive == exit = None

\* Unit i of the console line of Printer; `[<project>-<service>-<n>]` is in
\* the first one, the newline in the last.
PrintUnit(i) == [i |-> i, n |-> PrintUnits]

\* ConsoleOut::write: past the cap the backlog goes, not the new byte.
Teed(t, u) == IF Len(t) + 1 > TeeCap THEN <<u>> ELSE Append(t, u)

\* The scanner is in emit_complete_lines: a whole line, or an overlong one.
Scanning == \/ \E k \in DOMAIN partial : partial[k].i = partial[k].n
            \/ Len(partial) > PartialCap

\* Where the line at the front of partial ends.
LineEnd == LET k == SelectInSeq(partial, LAMBDA u : u.i = u.n)
           IN IF k > 0 THEN k ELSE Len(partial)

\* bracket_prefix: the name is there if the line has its start.
BracketPrefix(line) == line[1].i = 1

\* route and service_of: the service the container's name stands for.
Route(line) == IF BracketPrefix(line) THEN Printer ELSE Residue

\* open_file: a safe name, opened for appending and cut to length 0.
OpensAs == IF pc = "flush" THEN "late" ELSE "open"

\* write_line and append: the file is opened on its first line and given up
\* at the first error, with a warning.
AppendLine(line) ==
  LET stem == Route(line)
      new == handle[stem] = "none"
      before == IF new THEN NoFile ELSE file[stem]
  IN IF handle[stem] = "gone" THEN UNCHANGED <<file, handle, warned, fault>>
     ELSE \/ /\ stem \notin Unsafe
             /\ file' = [file EXCEPT ![stem] = [before EXCEPT !.con = @ \o line]]
             /\ handle' = IF new THEN [handle EXCEPT ![stem] = OpensAs] ELSE handle
             /\ UNCHANGED <<warned, fault>>
          \/ /\ file' = file
             /\ handle' = [handle EXCEPT ![stem] = "gone"]
             /\ warned' = warned \cup {stem}
             /\ fault' = fault \cup {"write"}

otherThanConsole == <<hostVars, pageVars, pend, fifo, tx, inbuf, out, schema,
                      finished, len, base, pulled>>

\* The container prints: an exit, and in the run the head of the loop next.
Prints ==
  /\ \/ /\ pc = "running" /\ tee = <<>> /\ ~Scanning
        /\ UNCHANGED <<pc, busy>>
     \/ /\ pc = "guest" /\ busy < MaxBusy
        /\ pc' = "boundary" /\ busy' = busy + 1
  /\ Alive /\ printed < PrintUnits
  /\ printed' = printed + 1
  /\ tee' = Teed(tee, PrintUnit(printed + 1))
  /\ fault' = IF Len(tee) + 1 > TeeCap THEN fault \cup {"tee"} ELSE fault
  /\ UNCHANGED <<otherThanConsole, partial, handle, file, warned>>

\* drain, at the head of the loop and before a park.
Drains ==
  /\ pc = "running" /\ Alive /\ tee # <<>> /\ ~Scanning
  /\ partial' = partial \o tee /\ tee' = <<>>
  /\ UNCHANGED <<pc, otherThanConsole, busy, printed, handle, file, warned, fault>>

\* emit_complete_lines.
EmitsLine ==
  /\ pc \in {"running", "flush"} /\ Alive /\ Scanning
  /\ AppendLine(SubSeq(partial, 1, LineEnd))
  /\ partial' = SubSeq(partial, LineEnd + 1, Len(partial))
  /\ UNCHANGED <<pc, otherThanConsole, busy, printed, tee>>

\* finish: a last drain, ...
FinishDrains ==
  /\ pc = "finish" /\ Alive
  /\ pc' = "flush"
  /\ partial' = partial \o tee /\ tee' = <<>>
  /\ UNCHANGED <<otherThanConsole, busy, printed, handle, file, warned, fault>>

\* ... and the fragment without a newline.
FlushesTail ==
  /\ pc = "flush" /\ Alive /\ ~Scanning /\ partial # <<>>
  /\ AppendLine(partial)
  /\ partial' = <<>>
  /\ UNCHANGED <<pc, otherThanConsole, busy, printed, tee>>
-----------------------------------------------------------------------------
(* cmd_run and the end of boot_and_run. *)

\* The process's exit codes.
ExitPass == 0
ExitFail == 1
ExitInfra == 2
ExitHorizon == 3

notYetRunning == <<stop, verdict, decided, pageVars, pend, fifo, tx, agentVars,
                   len, base, reportVars, fault>>

\* prepare_logs_dir: the directory is made and a probe file written to it, and
\* either can fail.
PrepareLogsDir == {"ready", "unwritable"}

\* A --logs-dir that cannot be written ends the command before the boot.
Prepare ==
  /\ pc = "start"
  /\ \E dir \in PrepareLogsDir :
       IF dir = "ready" THEN pc' = "load" /\ UNCHANGED exit
                        ELSE pc' = "exited" /\ exit' = ExitInfra
  /\ UNCHANGED <<watchdog, notYetRunning>>

\* cmd_run: the watchdog is armed before the boot.  (Without --wall-timeout it
\* never fires.)
ArmsWatchdog ==
  /\ pc = "load"
  /\ pc' = "boot" /\ watchdog' = "armed"
  /\ UNCHANGED <<exit, notYetRunning>>

\* boot_and_run: the VM, its memory, the vCPU with CPUID and MSRs, the clock
\* read after the MSRs, the kernel and the initramfs, registers, the system
\* tables and the console with its tee.  Every one of them may fail.
Boots ==
  /\ pc = "boot" /\ Alive
  /\ pc' \in {"running", "fatal"}
  /\ UNCHANGED <<watchdog, exit, notYetRunning>>

\* An error of KVM_RUN, of the egress channel or of the park ends the run at
\* once: no report, no capture, and the console's tail is not flushed.
RunFails ==
  /\ pc = "running" /\ Alive
  /\ pc' = "fatal"
  /\ UNCHANGED <<watchdog, exit, notYetRunning>>

\* main: an error returned by the command is exit code 1; the watchdog went
\* with the command.
Fatal ==
  /\ pc = "fatal" /\ Alive
  /\ pc' = "exited" /\ exit' = ExitFail /\ watchdog' = "off"
  /\ UNCHANGED notYetRunning

StopReasons == {"guest_shutdown", "guest_system_event", "guest_halt",
                "horizon", "driver_finish"}

\* StopReason::exit_code.
StopCode(r) == CASE r = "horizon" -> ExitHorizon [] OTHER -> ExitPass

\* Verdict::exit_code: the driver's own code is reported, not returned.
VerdictCode(v) == IF v = 0 THEN ExitPass ELSE ExitFail

\* The verdict's code, or the stop reason's when nobody drove the run.
ExitCode(r, v) == IF v # None THEN VerdictCode(v) ELSE StopCode(r)

\* The run stops.  A run that has a verdict stopped for it, and the agent has
\* recorded the finish; the agent may be in the middle of a line.  A stop found
\* at the head of the loop comes before the console is drained.
RunStops ==
  /\ pc = "running"
  /\ ~Scanning
  /\ stop' \in IF tee = <<>> THEN StopReasons ELSE {"driver_finish", "horizon"}
  /\ verdict' \in IF stop' = "driver_finish" THEN Codes ELSE {None}
  /\ finished' = (stop' = "driver_finish")
  /\ \E k \in 0..2 : /\ tx' = SubSeq(Units(EventLine("event"), 2), 1, k)
                      /\ out' = SubSeq(Units(EventLine("event"), 2), k + 1, 2)
  /\ len' = Logged /\ base' = Logged
  /\ decided' = ExitCode(stop', verdict')
  /\ pc' = IF stop' \in {"driver_finish", "horizon"} THEN "ask" ELSE "finish"
  /\ UNCHANGED <<watchdog, exit, pageVars, pend, fifo, inbuf, schema, busy,
                 reportVars, fault>>

\* The console scan flushed, the exit code is computed, the watchdog disarmed.
Finish ==
  /\ pc = "flush" /\ partial = <<>>
  /\ pc' = "exited"
  /\ exit' = ExitCode(stop, verdict)
  /\ watchdog' = "off"
  /\ UNCHANGED <<stop, verdict, decided, pageVars, pend, fifo, tx, agentVars,
                 len, base, reportVars, fault>>

\* spawn_wall_timeout: the deadline passes while the run is not over.  The
\* process goes, and the guest with it; the files stay.
WallTimeout ==
  /\ watchdog = "armed" /\ Alive
  /\ watchdog' = "fired" /\ exit' = ExitInfra /\ pc' = "exited"
  /\ pend' = <<>> /\ fifo' = <<>> /\ tx' = <<>> /\ inbuf' = <<>> /\ out' = <<>>
  /\ svc' = 0 /\ cursor' = 0 /\ raw' = <<>> /\ id' = 0
  /\ tee' = <<>> /\ partial' = <<>>
  /\ UNCHANGED <<stop, verdict, decided, schema, finished, busy, len, base,
                 file, pulled, warned, printed, handle, fault>>
-----------------------------------------------------------------------------
(* ControlChannel. *)

\* The end of the first complete line, and of the last one; 0 if there is none.
FirstEnd(t) == SelectInSeq(t, IsLast)
LastEnd(t) == SelectLastInSeq(t, IsLast)
From(t, k) == SubSeq(t, k + 1, Len(t))

\* decode_line on the first line: only a line with all its units decodes.
Decodes(t) == t[1].i = 1 /\ FirstEnd(t) = t[1].n

\* poll_line without a complete line: a buffer past the cap is cleared.
Capped(t) == IF Len(t) > TxCap THEN <<>> ELSE t

\* pump: as many queued units as the FIFO takes.
Take(p, f) == LET room == FifoSize - Len(f) IN IF Len(p) < room THEN Len(p) ELSE room
PumpFifo(p, f) == f \o SubSeq(p, 1, Take(p, f))
PumpRest(p, f) == SubSeq(p, Take(p, f) + 1, Len(p))
Pump(p) == fifo' = PumpFifo(p, fifo) /\ pend' = PumpRest(p, fifo)

\* A request line crosses the FIFO in two units.
Frame(req) == Units(req, 2)
-----------------------------------------------------------------------------
(* capture_logs. *)

ThisService == ServiceSeq[svc]

Request(n) ==
  IF svc = 0 THEN [id |-> n, op |-> "ping", svc |-> None, cursor |-> 0]
             ELSE [id |-> n, op |-> "logs", svc |-> ThisService, cursor |-> cursor]

\* The next request; drive_until_reply begins by dropping the stale lines.
Ask ==
  /\ pc = "ask" /\ Alive
  /\ id' = id + 1
  /\ tx' = From(tx, LastEnd(tx))
  /\ Pump(pend \o Frame(Request(id + 1)))
  /\ pc' = "boundary"
  /\ UNCHANGED <<hostVars, svc, cursor, raw, agentVars, len, base, reportVars,
                 fault>>

\* Past the services with an unsafe name, which are skipped with a warning.
NextService(i) ==
  LET rest == {j \in i + 1..Len(ServiceSeq) : ServiceSeq[j] \notin Unsafe}
  IN IF rest = {} THEN Len(ServiceSeq) + 1
     ELSE CHOOSE j \in rest : \A k \in rest : j <= k

Skipped(i) == {ServiceSeq[j] : j \in i + 1..NextService(i) - 1}

\* The next service's first page, or the end of the capture.
Advance ==
  /\ svc' = NextService(svc) /\ cursor' = 0 /\ raw' = <<>>
  /\ pc' = IF svc' > Len(ServiceSeq) THEN "finish" ELSE "ask"

\* format_k8s_logs: empty lines are dropped, every other line is kept.  (The
\* text is a function of the place in what was captured, in this order.)
FormatK8s(r) == [k \in {k \in DOMAIN r : r[k] \notin Blank} |-> r[k]]

\* fs::write of the service's file, which may fail with a warning.
WriteFile(warn) ==
  \/ /\ file' = [file EXCEPT ![ThisService] = [pull |-> FormatK8s(raw), con |-> <<>>]]
     /\ pulled' = pulled \cup {ThisService}
     /\ warned' = warned \cup warn /\ fault' = fault
  \/ /\ file' = file /\ pulled' = pulled /\ fault' = fault \cup {"write"}
     /\ warned' = warned \cup warn \cup {ThisService}

\* The service is done: write its file, go on with the next one.
CloseService ==
  /\ pc = "close" /\ Alive
  /\ WriteFile(Skipped(svc))
  /\ Advance
  /\ UNCHANGED <<hostVars, id, pend, fifo, tx, agentVars, len, base, consoleVars>>

\* Ok(None): the budget ran out.  A ping without an answer ends the capture.
GaveUp ==
  /\ pc = "timeout" /\ Alive
  /\ IF svc = 0 THEN pc' = "finish" /\ UNCHANGED warned
                ELSE pc' = "close" /\ warned' = warned \cup {ThisService}
  /\ UNCHANGED <<hostVars, pageVars, pend, fifo, tx, agentVars, len, base,
                 file, pulled, consoleVars, fault>>

\* Err: the guest is gone.  The file of the service at hand is written, the
\* services after it have none.
Aborted ==
  /\ pc = "dead" /\ Alive
  /\ IF svc = 0 THEN UNCHANGED <<file, pulled, warned, fault>>
                ELSE WriteFile({ThisService})
  /\ pc' = "finish"
  /\ UNCHANGED <<hostVars, pageVars, pend, fifo, tx, agentVars, len, base,
                 consoleVars>>

\* A reply to the ping: an agent older than schema 2 has no logs operation.
OnPing(rep) ==
  /\ svc = 0
  /\ IF rep.schema >= 2
     THEN Advance /\ warned' = warned \cup Skipped(0)
     ELSE pc' = "finish" /\ UNCHANGED <<svc, cursor, raw, warned>>

\* Mutant: a full read counts as the end, too.
ShortRead(n, cap) == n <= cap

\* read_log_chunk: fewer bytes than asked for means the end of the log.
Eof(n, cap) == n < cap

\* Mutant: the cursor is computed from the text that was kept.
CursorOfText(rep) == Cardinality(DOMAIN FormatK8s(raw \o rep.data))

\* The cursor of the next page is the one the agent names.
NextCursor(rep) == rep.next

\* A page of the log: kept; the last one when it says so, or when the cursor
\* did not move.
OnPage(rep) ==
  /\ svc > 0
  /\ IF ~rep.ok
     THEN /\ pc' = "close" /\ warned' = warned \cup {ThisService}
          /\ UNCHANGED <<svc, cursor, raw>>
     ELSE /\ raw' = raw \o rep.data
          /\ IF rep.eof \/ NextCursor(rep) <= cursor
             THEN pc' = "close" /\ cursor' = cursor
             ELSE pc' = "ask" /\ cursor' = NextCursor(rep)
          /\ UNCHANGED <<svc, warned>>
-----------------------------------------------------------------------------
(* drive_until_reply. *)

\* The head of the loop: both budgets, then the UART.
Boundary ==
  /\ pc = "boundary" /\ Alive
  /\ IF fault \cap {"wall", "virtual"} # {} THEN pc' = "timeout" ELSE pc' = "poll"
  /\ Pump(pend)
  /\ UNCHANGED <<hostVars, pageVars, tx, agentVars, len, base, reportVars, fault>>

\* A reply is ours by its id; an event line has none.
Ours(line) == line.id = id

\* Mutant: the line is folded into the run's own driver state, as in the run.
FoldIntoRun(line) == IF line.kind = "finish" THEN 0 ELSE verdict

\* A line that is not the reply is dropped: the verdict is closed.
FoldOther(line) == verdict

\* One line of the agent's.
PollLine ==
  /\ pc = "poll" /\ Alive /\ LastEnd(tx) > 0
  /\ tx' = From(tx, FirstEnd(tx))
  /\ IF Decodes(tx) /\ Ours(tx[1].line)
     THEN (OnPing(tx[1].line) \/ OnPage(tx[1].line)) /\ UNCHANGED verdict
     ELSE verdict' = FoldOther(tx[1].line) /\ UNCHANGED <<pc, svc, cursor, raw, warned>>
  /\ UNCHANGED <<stop, watchdog, exit, decided, id, pend, fifo, agentVars, len,
                 base, file, pulled, consoleVars, fault>>

\* Past the last line, the vCPU runs, unless the egress channel is broken.
Enter ==
  /\ pc = "poll" /\ Alive /\ LastEnd(tx) = 0
  /\ tx' = Capped(tx)
  /\ \/ pc' = "guest" /\ UNCHANGED fault
     \/ pc' = "dead" /\ fault' = fault \cup {"egress"}
  /\ UNCHANGED <<hostVars, pageVars, pend, fifo, agentVars, len, base, reportVars>>

\* HLT with interrupts on: the park, which first folds the complete lines into
\* a DriverRun of its own.
Halt ==
  /\ pc = "guest" /\ Alive
  /\ pc' = "parked"
  /\ tx' = From(tx, LastEnd(tx))
  /\ UNCHANGED <<hostVars, pageVars, pend, fifo, agentVars, len, base,
                 reportVars, fault>>

\* park_until_deliverable: some interrupt is deliverable, or the park fails (a
\* jump past the sanity bound).
ParkReturns ==
  /\ pc = "parked" /\ Alive
  /\ \/ pc' = "boundary" /\ UNCHANGED fault
     \/ pc' = "dead" /\ fault' = fault \cup {"park"}
  /\ UNCHANGED <<hostVars, pageVars, pend, fifo, tx, agentVars, len, base,
                 reportVars>>

\* Mutant: the park is not told of the capture's own horizon.
ParkWithoutHorizon == FALSE

\* The capture's horizon is in the park's event queue.
ParkHorizonDue == "virtual" \in fault

ParkHorizon ==
  /\ pc = "parked" /\ Alive /\ ParkHorizonDue
  /\ pc' = "timeout"
  /\ UNCHANGED <<hostVars, pageVars, pend, fifo, tx, agentVars, len, base,
                 reportVars, fault>>

\* Time passes: the capture's wall budget, or its virtual one, is used up.
BudgetRunsOut(which) ==
  /\ pc \in {"guest", "parked"} /\ Alive
  /\ fault' = fault \cup {which}
  /\ UNCHANGED <<pc, hostVars, pageVars, pend, fifo, tx, agentVars, len, base,
                 reportVars>>
-----------------------------------------------------------------------------
(* The guest, until its next exit. *)

GuestStep ==
  /\ pc = "guest" /\ Alive
  /\ UNCHANGED <<hostVars, pageVars, pend, base, reportVars>>

\* Triple fault, system event, HLT with interrupts off, or an error of KVM_RUN.
GuestDies ==
  /\ GuestStep
  /\ pc' = "dead" /\ fault' = fault \cup {"dead"}
  /\ UNCHANGED <<fifo, tx, agentVars, len>>

\* Any other exit: a timer tick, the doorbell, another device.
OtherExit ==
  /\ GuestStep
  /\ pc' = "boundary"
  /\ UNCHANGED <<fifo, tx, agentVars, len, fault>>

\* A container logs, which is no exit.
ContainerLogs(s) ==
  /\ GuestStep
  /\ busy < MaxBusy /\ busy' = busy + 1
  /\ len' = [len EXCEPT ![s] = @ + 1]
  /\ UNCHANGED <<pc, fifo, tx, inbuf, out, schema, finished, fault>>

\* The agent, idle, forwards an event of some container; the first finish is
\* one of them.
AgentEvent ==
  /\ GuestStep
  /\ out = <<>> /\ LastEnd(inbuf) = 0 /\ busy < MaxBusy
  /\ \E kind \in {"event"} \cup (IF finished THEN {} ELSE {"finish"}) :
       /\ out' = Units(EventLine(kind), 1)
       /\ finished' = (finished \/ kind = "finish")
  /\ busy' = busy + 1
  /\ UNCHANGED <<pc, fifo, tx, inbuf, schema, len, fault>>

\* The agent takes a unit from the UART.
AgentReads ==
  /\ GuestStep
  /\ fifo # <<>>
  /\ inbuf' = Append(inbuf, Head(fifo)) /\ fifo' = Tail(fifo)
  /\ pc' = "boundary"
  /\ UNCHANGED <<tx, out, schema, finished, busy, len, fault>>

\* ControlSink::write: COM2's writer keeps what the guest sends.
Sink(t, u) == Append(t, u)

\* The agent writes a unit to it.
AgentWrites ==
  /\ GuestStep
  /\ out # <<>>
  /\ tx' = Sink(tx, Head(out)) /\ out' = Tail(out)
  /\ pc' = "boundary"
  /\ UNCHANGED <<fifo, inbuf, schema, finished, busy, len, fault>>

\* Mutant: the agent serves whatever size the request asks for.
WholeLog == 2 * TxCap

\* do_logs caps a read at MAX_LOGS_CHUNK_BYTES.
ReadCap == ChunkBytes

\* String::from_utf8_lossy on the bytes from+1..from+n: a character cut by
\* either end of the chunk is lost.
Lossy(from, n) ==
  [k \in 1..n |-> LET p == from + k IN
     IF (k = 1 /\ p - 1 \in Wide) \/ (k = n /\ p \in Wide) THEN Lost ELSE p]

\* read_log_chunk: one read from the cursor, which may lie past the end.
LogReply(req) ==
  LET left == IF len[req.svc] > req.cursor THEN len[req.svc] - req.cursor ELSE 0
      n == IF left < ReadCap THEN left ELSE ReadCap
  IN Reply(req, TRUE, Lossy(req.cursor, n), Eof(n, ReadCap))

\* do_logs (or ping): a complete request is answered; podman may fail.  A byte
\* of data takes one unit or, escaped, up to Escape of them.
AgentHandles ==
  LET req == Last(inbuf).line IN
  /\ GuestStep
  /\ out = <<>> /\ LastEnd(inbuf) > 0
  /\ inbuf' = <<>>
  /\ \/ /\ req.op = "ping" /\ out' = Units(Reply(req, TRUE, <<>>, FALSE), 1)
        /\ fault' = fault
     \/ /\ req.op = "logs"
        /\ \E e \in 1..Escape :
             out' = Units(LogReply(req), e * Len(LogReply(req).data) + 1)
        /\ fault' = fault
     \/ /\ req.op = "logs" /\ out' = Units(Reply(req, FALSE, <<>>, FALSE), 1)
        /\ fault' = fault \cup {"podman"}
  /\ UNCHANGED <<pc, fifo, tx, schema, finished, busy, len>>

HostStep ==
  \/ Boots \/ Fatal \/ EmitsLine \/ FinishDrains \/ FlushesTail \/ Finish
  \/ Ask \/ CloseService \/ GaveUp \/ Aborted
  \/ Boundary \/ PollLine \/ Enter \/ ParkHorizon

GuestRuns ==
  \/ Halt \/ GuestDies \/ OtherExit \/ AgentEvent \/ AgentReads
  \/ AgentWrites \/ AgentHandles \/ (\E s \in Services : ContainerLogs(s))

Next ==
  \/ Prepare \/ ArmsWatchdog \/ Prints \/ Drains \/ RunStops \/ RunFails
  \/ WallTimeout \/ HostStep \/ ParkReturns
  \/ GuestRuns \/ \E w \in {"wall", "virtual"} : BudgetRunsOut(w)

\* The vCPU thread goes on, the guest leaves KVM_RUN (the doorbell sees to it),
\* and both clocks run: a thread that is in the guest or in the park again and
\* again uses up both budgets.  No interrupt is promised to a parked guest.
Spec ==
  /\ Init /\ [][Next]_vars
  /\ WF_vars(HostStep) /\ WF_vars(GuestRuns)
  /\ \A w \in {"wall", "virtual"} : SF_vars(BudgetRunsOut(w))
-----------------------------------------------------------------------------
(* Properties. *)

\* The pulled part of file[s] is made of the first n bytes of the log of s.
HoldsPrefix(s, n) ==
  LET pull == file[s].pull IN
    /\ DOMAIN pull = 1..n \ Blank
    /\ \A k \in DOMAIN pull :
         pull[k] # k => pull[k] = Lost /\ {k - 1, k} \cap Wide # {}

\* A file holds one contiguous piece of its service's log, from the first byte
\* on, each page once and in order, although the log grows between the pages
\* and other lines of the agent come between the replies; only a character cut
\* by a page border may be missing.  After it come the console's units, in the
\* order they were printed: the scan's appends do not damage the pulled text
\* (capture_logs, read_log_chunk, open_file's append mode).
CapturedIsPrefix ==
  \A s \in Services :
    /\ file[s].pull # None => \E n \in 0..len[s] : HoldsPrefix(s, n)
    /\ \A j, k \in DOMAIN file[s].con : j < k => file[s].con[j].i < file[s].con[k].i

\* A unit the guest printed is in some file.
InSomeFile(i) ==
  \E s \in Stems : \E k \in DOMAIN file[s].con : file[s].con[k].i = i

\* A file that lacks something logged before the run stopped was warned about,
\* and a service is warned about only if its name is unsafe or something did
\* fail: the guest, podman, a write, or a budget.  One exception: the scan's
\* first line of a service, coming during the capture, makes the last flush cut
\* the pulled file to length 0.  Where a run stopped and no file was pulled,
\* everything printed is in the files at the exit, a line without its newline
\* included, unless the tee overflowed or a file failed (ConsoleScan::finish).
NothingIsMissingSilently ==
  /\ \A s \in pulled \ warned :
        \/ handle[s] = "late"
        \/ \E n \in base[s]..len[s] : HoldsPrefix(s, n)
  /\ warned \ Unsafe # {} => fault # {}
  /\ exit # None /\ stop # None /\ watchdog # "fired" /\ pulled = {}
       /\ fault \cap {"tee", "write"} = {} =>
       \A i \in 1..printed : InSomeFile(i)

\* The units of the request in flight, or of its reply, in a stream.
UnitsOf(t) == {k \in DOMAIN t : t[k].line.id = id}

\* While the host waits, the whole request is on its way to the agent or the
\* whole reply on its way back: the stale-line drain, the park's drain and the
\* cap of the capture buffer never swallow it (poll_line, drive_until_reply,
\* park_drain_agent, MAX_LOGS_CHUNK_BYTES).
ReplyIsNeverLost ==
  pc \in {"boundary", "poll", "guest", "parked"} =>
    \/ Cardinality(UnitsOf(inbuf \o fifo \o pend)) = 2
    \/ \E k \in UnitsOf(tx \o out) :
         Cardinality(UnitsOf(tx \o out)) = (tx \o out)[k].n

\* The process exits with what was decided when the run stopped, whatever the
\* guest does during the capture, a first finish of a run stopped by its horizon
\* included; the watchdog is the one exception (boot_and_run, drive_until_reply).
ExitIsDecidedAtStop ==
  (exit # None /\ stop # None) => (exit = decided \/ watchdog = "fired")

\* A run that stopped exits: no guest keeps the capture going (the budgets of
\* drive_until_reply, the horizon in the park's queue).
CaptureEnds == (stop # None) ~> (exit # None)
=============================================================================
