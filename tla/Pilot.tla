--------------------------------- MODULE Pilot ---------------------------------
(***************************************************************************)
(* Pilot, the first process of a cell (celln-pilot guest.rs), and what the *)
(* host makes of its report (dispatch_outcome.rs, dispatch.rs run_cell).   *)
(*                                                                         *)
(* Pilot reads the requests of its cell and for each one verifies inputs,  *)
(* closure members and the executable, asks the exec gate, forks, narrows  *)
(* the child's authority step by step and executes the file it hashed.     *)
(* A dispatched request has its output captured and is reported in frames  *)
(* on the console; a request of the command line is not.  Any operation of *)
(* the guest kernel can fail, and the host can stop the cell anywhere.     *)
(***************************************************************************)
EXTENDS Integers, Sequences

CONSTANTS Programs,    \* contents a path of the cell may hold
          Declared,    \* the program the host declared
          MaxChunks,   \* bound: reads of captured output
          MaxFrames    \* bound: console length up to which a workload forges

ASSUME PilotAssumption == Declared \in Programs /\ {MaxChunks, MaxFrames} \subseteq Nat

VARIABLES
    queued,     \* requests not yet begun
    attested,  \* what the manifest says of each program
    pilot,     \* where pilot is
    now,       \* the request it is at
    ports,     \* I/O ports pilot may use, inherited by a child
    path,      \* what the path of the request holds
    opened,    \* what the open file holds
    lane,      \* the lane the gate gave
    child,     \* where the forked child is
    power,     \* the child's authority
    leftover,  \* a workload of an earlier request still runs, unconfined
    chunks,    \* reads of its output
    console,   \* the frames on the console
    machine,   \* "on", or how the run ended
    verdict    \* the host's LaunchOutcome

guest == <<queued, attested, pilot, now, ports, path, opened, lane, child, power, leftover, chunks>>
pilotVars == <<guest, console, machine, verdict>>

Nobody == [fs |-> "all", net |-> TRUE, caps |-> "all", ports |-> {}]
Requests == [report : BOOLEAN, members : {"none", "match", "differ"},
             inputs : {"none", "valid", "invalid"}, expects : BOOLEAN, force : BOOLEAN,
             fetch : BOOLEAN, mailbox : BOOLEAN]
NoVerdict == [grant |-> "none", inputs |-> "none", exit |-> -1, ended |-> FALSE,
              defect |-> FALSE, denial |-> FALSE, output |-> FALSE, decided |-> FALSE]

(* The dispatcher sends one request, reported and with a workspace access;  *)
(* `celln run` sends several plain ones.                                    *)
Dispatched == {r \in Requests : r.report /\ (r.mailbox => ~r.fetch /\ r.force /\ r.members # "none")}
Plain == {r \in Requests : ~r.report /\ r.members = "none" /\ r.inputs = "none"
                           /\ ~r.expects /\ ~r.force /\ ~r.mailbox}

PilotTypeOK ==
    /\ queued \in Seq(Requests) /\ attested \in [Programs -> {"denied", "tool", "agent"}]
    /\ path \in Programs /\ opened \in Programs /\ lane \in {"none", "tool", "agent"}
    /\ ports \subseteq {"invocation"} /\ leftover \in BOOLEAN /\ chunks \in 0..MaxChunks
    /\ machine \in {"on", "Shutdown", "TimedOut", "Halted"}
    /\ pilot \in {"booted", "asking", "reading", "next", "console", "inputs", "members", "open",
                   "gate", "fork", "setup", "capture", "finish"}
    /\ child \in {"none", "root", "mailbox", "landlock", "seccomp", "caps", "exec", "running",
                   "failed", "exited0", "exited1", "killed"}
    /\ now \in Requests
    /\ power \in [fs : {"all", "granted"}, net : BOOLEAN, caps : {"all", "rawio", "none"},
                   ports : SUBSET {"invocation", "mailbox"}]

PilotInit ==
    /\ queued \in {<<r>> : r \in Dispatched \cup Plain} \cup {<<r, s>> : r \in Plain, s \in Plain}
    /\ attested \in [Programs -> {"denied", "tool", "agent"}]
    /\ path \in Programs /\ opened = path
    /\ pilot = "booted" /\ now = Head(queued) /\ ports = {} /\ lane = "none"
    /\ child = "none" /\ power = Nobody /\ leftover = FALSE /\ chunks = 0
    /\ console = <<>> /\ machine = "on" /\ verdict = NoVerdict

-----------------------------------------------------------------------------
(* Frames.  Until run_one silences the kernel its lines may break one.      *)

Frame(kind, what) == [kind |-> kind, what |-> what]
Emit(frame) == console' = IF now.report THEN Append(console, frame) ELSE console
Goes(place) == pilot' = place
Quiet == UNCHANGED <<machine, verdict>>

(* A refusal before the fork ends the request. *)
Refused == Goes("next") /\ Emit(Frame("Failed", "refused"))

-----------------------------------------------------------------------------
(* main and run_requested. *)

(* A manifest that cannot be read ends the cell. *)
ReadManifest ==
    /\ machine = "on" /\ pilot = "booted"
    /\ pilot' \in {"asking", "finish"}
    /\ UNCHANGED <<queued, attested, now, ports, path, opened, lane, child, power, leftover, chunks, console>>
    /\ Quiet

(* warm_invocation: the port is granted, read, and given back before the    *)
(* request is parsed; if it cannot be given back pilot goes no further.     *)
WarmGrant ==
    /\ machine = "on" /\ pilot = "asking" /\ now.report
    /\ \/ Goes("reading") /\ ports' = {"invocation"} /\ UNCHANGED console
       \/ Goes("finish") /\ UNCHANGED ports
          /\ \E broken \in BOOLEAN :
                console' = Append(console, Frame(IF broken THEN "broken" ELSE "Failed", "refused"))
    /\ UNCHANGED <<queued, attested, now, path, opened, lane, child, power, leftover, chunks>> /\ Quiet

(* Mutant: the port is not given back. *)
WarmRevokeForgets ==
    /\ machine = "on" /\ pilot = "reading" /\ Goes("next") /\ UNCHANGED <<ports, console>>
    /\ UNCHANGED <<queued, attested, now, path, opened, lane, child, power, leftover, chunks>> /\ Quiet

WarmRevoke ==
    /\ machine = "on" /\ pilot = "reading"
    /\ \/ ports' = {} /\ Goes("next") /\ UNCHANGED console
       \/ ports' = {} /\ Goes("finish") /\ Emit(Frame("Failed", "refused"))
       \/ UNCHANGED <<ports, console>> /\ Goes("finish")
    /\ UNCHANGED <<queued, attested, now, path, opened, lane, child, power, leftover, chunks>> /\ Quiet

(* A request file in the initramfs. *)
ReadFile ==
    /\ machine = "on" /\ pilot = "asking" /\ ~now.report
    /\ pilot' \in {"next", "finish"}
    /\ UNCHANGED <<queued, attested, now, ports, path, opened, lane, child, power, leftover, chunks, console>>
    /\ Quiet

(* The next request; a private scratch that cannot be mounted refuses a     *)
(* dispatched one.                                                          *)
NextRequest ==
    /\ machine = "on" /\ pilot = "next"
    /\ IF queued = <<>> THEN Goes("finish") /\ UNCHANGED <<queued, now, console, lane, child, power, chunks>>
       ELSE /\ now' = Head(queued) /\ queued' = Tail(queued)
            /\ lane' = "none" /\ child' = "none" /\ power' = Nobody /\ chunks' = 0
            /\ \/ Goes("console") /\ UNCHANGED console
               \/ /\ Goes("next") /\ Head(queued).report
                  /\ \E broken \in BOOLEAN :
                        console' = Append(console, Frame(IF broken THEN "broken" ELSE "Failed", "refused"))
    /\ UNCHANGED <<attested, ports, path, opened, leftover>> /\ Quiet

(* finish: the guest reboots, which the host sees as a shutdown. *)
Finish ==
    /\ machine = "on" /\ pilot = "finish" /\ machine' = "Shutdown"
    /\ UNCHANGED <<guest, console, verdict>>

-----------------------------------------------------------------------------
(* run_one, up to the gate. *)

SilenceKernel ==
    /\ machine = "on" /\ pilot = "console"
    /\ \/ Goes("inputs") /\ UNCHANGED console
       \/ now.report /\ Refused
    /\ UNCHANGED <<queued, attested, now, ports, path, opened, lane, child, power, leftover, chunks>> /\ Quiet

(* stage_inputs: named, bounded, hashed, and written to a new directory. *)
StageInputs ==
    /\ machine = "on" /\ pilot = "inputs"
    /\ \/ now.inputs # "invalid" /\ Goes("members") /\ Emit(Frame("Inputs", now.inputs))
       \/ now.inputs # "none" /\ Refused
    /\ UNCHANGED <<queued, attested, now, ports, path, opened, lane, child, power, leftover, chunks>> /\ Quiet

CheckMembers ==
    /\ machine = "on" /\ pilot = "members"
    /\ \/ now.members # "differ" /\ Goes("open") /\ UNCHANGED console
       \/ now.members # "none" /\ Refused
    /\ UNCHANGED <<queued, attested, now, ports, path, opened, lane, child, power, leftover, chunks>> /\ Quiet

(* open_and_hash: once; the name is not looked at again. *)
OpenAndHash ==
    /\ machine = "on" /\ pilot = "open"
    /\ \/ opened' = path /\ Goes("gate") /\ UNCHANGED console
       \/ UNCHANGED opened /\ Refused
    /\ UNCHANGED <<queued, attested, now, ports, path, lane, child, power, leftover, chunks>> /\ Quiet

(* The declared hash, the manifest and the lane; the host can ask for less  *)
(* authority than the manifest permits.                                     *)
Gate ==
    /\ machine = "on" /\ pilot = "gate"
    /\ IF (now.expects => opened = Declared) /\ attested[opened] # "denied"
       THEN /\ lane' = IF now.force THEN "agent" ELSE attested[opened]
            /\ Goes("fork") /\ UNCHANGED console
       ELSE Refused /\ UNCHANGED lane
    /\ UNCHANGED <<queued, attested, now, ports, path, opened, child, power, leftover, chunks>> /\ Quiet

-----------------------------------------------------------------------------
(* exec_open_file: the child. *)

ForkChild ==
    /\ machine = "on" /\ pilot = "fork"
    /\ \/ Goes("setup") /\ child' = "root" /\ power' = [Nobody EXCEPT !.ports = ports]
          /\ UNCHANGED console
       \/ UNCHANGED <<child, power>> /\ Refused
    /\ UNCHANGED <<queued, attested, now, ports, path, opened, lane, leftover, chunks>> /\ Quiet

(* Mutant: only the lane decides. *)
ConfinedByLane == lane = "agent"

(* Every request with a workspace access is confined, in either lane. *)
Confined == lane = "agent" \/ now.report

(* Root, mailbox ports, then the agent lane: device nodes and Landlock,     *)
(* seccomp, capabilities; each may fail.                                    *)
After(place) ==
    CASE place = "root" -> IF now.mailbox THEN "mailbox" ELSE IF Confined THEN "landlock" ELSE "exec"
      [] place = "mailbox" -> IF Confined THEN "landlock" ELSE "exec"
      [] place = "landlock" -> "seccomp"
      [] place = "seccomp" -> "caps"
      [] place = "caps" -> "exec"

Narrowed(place) ==
    CASE place = "root" -> power
      [] place = "mailbox" -> [power EXCEPT !.ports = @ \cup {"mailbox"}]
      [] place = "landlock" -> [power EXCEPT !.fs = "granted"]
      [] place = "seccomp" -> [power EXCEPT !.net = FALSE]
      [] place = "caps" -> [power EXCEPT !.caps = IF now.fetch THEN "rawio" ELSE "none"]

ChildStep ==
    /\ machine = "on" /\ child \in {"root", "mailbox", "landlock", "seccomp", "caps"}
    /\ \/ child' = After(child) /\ power' = Narrowed(child)
       \/ child' = "failed" /\ UNCHANGED power
    /\ UNCHANGED <<queued, attested, pilot, now, ports, path, opened, lane, leftover, chunks, console>>
    /\ Quiet

(* Mutant: the path is executed. *)
ExecPath ==
    /\ machine = "on" /\ child = "exec"
    /\ \/ child' = "running" /\ opened' = path
       \/ child' = "failed" /\ UNCHANGED opened
    /\ UNCHANGED <<queued, attested, pilot, now, ports, path, lane, power, leftover, chunks, console>>
    /\ Quiet

(* execveat on the open file. *)
Exec ==
    /\ machine = "on" /\ child = "exec"
    /\ child' \in {"running", "failed"}
    /\ UNCHANGED <<queued, attested, pilot, now, ports, path, opened, lane, power, leftover, chunks, console>>
    /\ Quiet

(* The workload ends, perhaps leaving a process behind. *)
WorkloadEnds ==
    /\ machine = "on" /\ child = "running"
    /\ child' \in {"exited0", "exited1", "killed"}
    /\ leftover' \in {leftover, leftover \/ ~Confined}
    /\ UNCHANGED <<queued, attested, pilot, now, ports, path, opened, lane, power, chunks, console>>
    /\ Quiet

(* A process that is not confined can replace the file at a path, and write *)
(* to the console whatever it likes.                                        *)
Unconfined == leftover \/ (child = "running" /\ power.fs = "all")

ReplacePath ==
    /\ machine = "on" /\ Unconfined
    /\ path' \in Programs \ {path}
    /\ UNCHANGED <<queued, attested, pilot, now, ports, opened, lane, child, power, leftover, chunks, console>>
    /\ Quiet

Forges ==
    /\ machine = "on" /\ Unconfined /\ Len(console) < MaxFrames
    /\ \E frame \in {Frame("Started", Declared), Frame("Exit", 0)} : console' = Append(console, frame)
    /\ UNCHANGED guest /\ Quiet

-----------------------------------------------------------------------------
(* exec_open_file: the parent. *)

(* The end of the error pipe acknowledges the exec. *)
Started ==
    /\ machine = "on" /\ pilot = "setup" /\ child \in {"running", "exited0", "exited1", "killed"}
    /\ Goes("capture") /\ Emit(Frame("Started", opened))
    /\ UNCHANGED <<queued, attested, now, ports, path, opened, lane, child, power, leftover, chunks>> /\ Quiet

SetupFailed ==
    /\ machine = "on" /\ pilot = "setup" /\ child = "failed"
    /\ Refused
    /\ UNCHANGED <<queued, attested, now, ports, path, opened, lane, child, power, leftover, chunks>> /\ Quiet

(* Output is data in a frame of pilot's, up to the limit. *)
Capture ==
    /\ machine = "on" /\ pilot = "capture" /\ chunks < MaxChunks
    /\ chunks' = chunks + 1 /\ Emit(Frame("Output", 0))
    /\ UNCHANGED <<queued, attested, pilot, now, ports, path, opened, lane, child, power, leftover>> /\ Quiet

(* waitpid; a broken pipe to the workload is an error although it ended.    *)
Reap ==
    /\ machine = "on" /\ pilot = "capture" /\ child \in {"exited0", "exited1", "killed"}
    /\ Goes("next")
    /\ \/ Emit(CASE child = "exited0" -> Frame("Exit", 0)
                 [] child = "exited1" -> Frame("Exit", 1)
                 [] OTHER -> Frame("Signal", 9))
       \/ Emit(Frame("Failed", "capture"))
    /\ UNCHANGED <<queued, attested, now, ports, path, opened, lane, child, power, leftover, chunks>> /\ Quiet

-----------------------------------------------------------------------------
(* The host. *)

(* The cell is stopped, or its kernel halts. *)
MachineStops ==
    /\ machine = "on" /\ machine' \in {"TimedOut", "Halted"}
    /\ UNCHANGED <<guest, console, verdict>>

(* parse_report, frame by frame: one grant, before the output; inputs once  *)
(* and first; nothing after a terminal frame; anything else is a defect.    *)
ReadsFrame(v, frame) ==
    IF v.ended \/ frame.kind = "broken" THEN [v EXCEPT !.defect = TRUE]
    ELSE CASE frame.kind = "Started" /\ v.grant = "none" /\ ~v.output ->
                [v EXCEPT !.grant = frame.what]
           [] frame.kind = "Inputs" /\ v.inputs = "none" /\ ~v.output /\ v.grant = "none" ->
                [v EXCEPT !.inputs = IF frame.what = "none" THEN "empty" ELSE frame.what]
           [] frame.kind = "Output" -> [v EXCEPT !.output = TRUE]
           [] frame.kind = "Exit" ->
                [v EXCEPT !.ended = TRUE, !.exit = frame.what, !.denial = frame.what # 0]
           [] frame.kind \in {"Signal", "Failed"} -> [v EXCEPT !.ended = TRUE, !.denial = TRUE]
           [] OTHER -> [v EXCEPT !.defect = TRUE]

ReadReport(frames) ==
    LET Read[n \in 0..Len(frames)] ==
            IF n = 0 THEN NoVerdict ELSE ReadsFrame(Read[n - 1], frames[n])
    IN  Read[Len(frames)]

ParseReport ==
    LET v == ReadReport(console)
    IN  IF v.defect THEN [v EXCEPT !.denial = TRUE, !.grant = "none", !.inputs = "none", !.exit = -1]
        ELSE [v EXCEPT !.denial = @ \/ ~v.ended \/ machine # "Shutdown"]

(* run_cell_with_broker and validate_executed_tool: a grant must be there   *)
(* when the program ended, name the declared program, and the inputs must   *)
(* be the ones that were queued for; a control with a reason denies.         *)
Judged(v, request, cancelled) ==
    LET denied == \/ v.denial \/ cancelled
                  \/ v.grant = "none" /\ v.exit >= 0
                  \/ v.grant # "none" /\ v.grant # Declared
                  \/ (v.inputs = "valid") # (request.inputs = "valid")
    IN  [v EXCEPT !.denial = denied, !.decided = TRUE,
                  !.grant = IF @ = Declared THEN @ ELSE "none"]

Judge ==
    /\ machine # "on" /\ ~verdict.decided /\ now.report
    /\ \E cancelled \in BOOLEAN : verdict' = Judged(ParseReport, now, cancelled)
    /\ UNCHANGED <<guest, console, machine>>

PilotNext ==
    \/ ReadManifest \/ WarmGrant \/ WarmRevoke \/ ReadFile \/ NextRequest \/ Finish
    \/ SilenceKernel \/ StageInputs \/ CheckMembers \/ OpenAndHash \/ Gate
    \/ ForkChild \/ ChildStep \/ Exec \/ WorkloadEnds \/ ReplacePath \/ Forges
    \/ Started \/ SetupFailed \/ Capture \/ Reap \/ MachineStops \/ Judge

PilotSpec == PilotInit /\ [][PilotNext]_pilotVars

-----------------------------------------------------------------------------
Succeeded(v) == v.decided /\ v.exit = 0 /\ ~v.denial

(* "Authority comes from hashing what is actually at that path": whatever   *)
(* runs was permitted by the manifest and is the declared program where one *)
(* was declared, even if its name is replaced after the check; and by then  *)
(* a confined child has lost everything it was not lent, in particular the  *)
(* port pilot read its request from.                                        *)
RunsAttested ==
    child = "running" =>
        /\ attested[opened] # "denied" /\ (now.expects => opened = Declared)
        /\ "invocation" \notin power.ports
        /\ Confined => power = [fs |-> "granted", net |-> FALSE,
                                caps |-> IF now.fetch THEN "rawio" ELSE "none",
                                ports |-> IF now.mailbox THEN {"mailbox"} ELSE {}]

(* "Only pilot frames carry a verdict": the host reports success only for   *)
(* the declared program, executed to exit code 0 with its inputs, and names *)
(* a grant only if that program was executed, wherever the guest failed or  *)
(* was stopped and whatever the workload printed.                           *)
VerdictTrue ==
    /\ Succeeded(verdict) => child = "exited0" /\ opened = Declared
                             /\ now.inputs \in {"none", "valid"}
    /\ verdict.grant # "none" => opened = verdict.grant
                                 /\ child \in {"running", "exited0", "exited1", "killed"}
================================================================================
