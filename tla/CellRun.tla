-------------------------------- MODULE CellRun --------------------------------
(***************************************************************************)
(* LinuxCell::run (vmm/boot.rs) on one cell, and the mailbox of a parent   *)
(* (parent_mailbox.rs).                                                    *)
(*                                                                         *)
(* The host thread checks the control and the stop flag, enters the guest  *)
(* and serves its port exits; a watchdog thread sets the flag at the       *)
(* deadline or when the control has a reason, and then sends a burst of    *)
(* signals to end KVM_RUN.  The owner of a parent runs it to its start     *)
(* marker, and then once per exchange: deliver a frame, run until the      *)
(* guest commits, take the response.  A worker runs once, with a broker.   *)
(***************************************************************************)
EXTENDS Integers, Sequences

CONSTANTS Signals,       \* length of the watchdog's burst (20 in the code)
          FrameReads,    \* reads the guest needs for one frame
          MaxFrame,      \* writes that fit a response (MAX_FRAME_BYTES)
          MaxExchanges   \* bound: exchanges of one parent

ASSUME CellRunAssumption ==
    {Signals, FrameReads, MaxFrame, MaxExchanges} \subseteq Nat \ {0}

VARIABLES
    kind,      \* "parent" or "worker"
    owner,     \* where the owner is between runs
    vcpu,      \* where its thread is inside run()
    dog,       \* the watchdog thread of the run
    sent,      \* signals of the burst already sent
    stop,      \* the flag thread and watchdog share
    end,       \* BootEnd, known before the loop is left
    cancelled, \* the thread's Control has a reason
    due,       \* the timeout of the run has passed
    mailbox,   \* ParentMailbox
    exchange,  \* frames delivered
    answers    \* responses taken: what was written for each

runVars == <<kind, owner, vcpu, dog, sent, stop, end, cancelled, due, mailbox, exchange, answers>>
host == <<kind, owner, cancelled, due, exchange, answers>>

(* A chunk of a response: the frame it was written after, and how much of   *)
(* that frame the guest had not read.                                       *)
Chunk == [exchange : 0..MaxExchanges, unread : 0..FrameReads]

EmptyBox == [unread |-> 0, output |-> <<>>, active |-> FALSE, committed |-> FALSE,
             poisoned |-> FALSE]

RunTypeOK ==
    /\ kind \in {"parent", "worker"}
    /\ owner \in {"launching", "ready", "delivered", "running", "taking", "lost", "done"}
    /\ vcpu \in {"off", "top", "entering", "guest", "broker", "interrupted", "leaving", "joining"}
    /\ dog \in {"off", "watching", "signalling"}
    /\ sent \in 0..Signals
    /\ stop \in BOOLEAN /\ cancelled \in BOOLEAN /\ due \in BOOLEAN
    /\ end \in {"none", "TimedOut", "Marker", "Parked", "Halted", "error"}
    /\ mailbox \in [unread : 0..FrameReads, output : Seq(Chunk), active : BOOLEAN,
                    committed : BOOLEAN, poisoned : BOOLEAN]
    /\ exchange \in 0..MaxExchanges
    /\ answers \in Seq(Seq(Chunk))

RunInit ==
    /\ kind \in {"parent", "worker"} /\ owner = "launching"
    /\ vcpu = "off" /\ dog = "off" /\ sent = 0 /\ stop = FALSE /\ end = "none"
    /\ cancelled = FALSE /\ due = FALSE
    /\ mailbox = EmptyBox /\ exchange = 0 /\ answers = <<>>

-----------------------------------------------------------------------------
(* ParentMailbox. *)

MailboxDeliver(box) == [box EXCEPT !.unread = FrameReads, !.active = TRUE]

(* read: the guest gets 0xff from an empty or poisoned mailbox. *)
MailboxRead(box) ==
    IF box.poisoned \/ box.unread = 0 THEN box ELSE [box EXCEPT !.unread = @ - 1]

(* Mutant: a guest may answer before it has read its frame. *)
MailboxWriteEarly(box) ==
    IF box.poisoned \/ ~box.active \/ box.committed \/ Len(box.output) >= MaxFrame
    THEN [box EXCEPT !.poisoned = TRUE]
    ELSE [box EXCEPT !.output = Append(@, [exchange |-> exchange, unread |-> box.unread])]

(* write: out of turn, or beyond the frame, poisons the mailbox for good. *)
MailboxWrite(box) ==
    IF box.poisoned \/ ~box.active \/ box.committed \/ box.unread > 0
         \/ Len(box.output) >= MaxFrame
    THEN [box EXCEPT !.poisoned = TRUE]
    ELSE [box EXCEPT !.output = Append(@, [exchange |-> exchange, unread |-> box.unread])]

(* commit: always yields; valid only after a whole, unfinished answer. *)
MailboxCommit(box, wellFormed) ==
    [box EXCEPT !.committed = TRUE,
                !.poisoned = \/ @ \/ ~wellFormed \/ ~box.active \/ box.committed
                             \/ box.unread > 0 \/ box.output = <<>>]

MailboxTake(box) == [box EXCEPT !.active = FALSE, !.committed = FALSE, !.output = <<>>]

-----------------------------------------------------------------------------
(* The owner. *)

(* deliver_parent_message; the transport is used by one owner at a time. *)
Deliver ==
    /\ owner = "ready" /\ exchange < MaxExchanges
    /\ ~mailbox.poisoned /\ ~mailbox.active
    /\ mailbox' = MailboxDeliver(mailbox)
    /\ exchange' = exchange + 1
    /\ owner' = "delivered"
    /\ UNCHANGED <<kind, vcpu, dog, sent, stop, end, cancelled, due, answers>>

DeliverRefused ==
    /\ owner = "ready" /\ mailbox.poisoned
    /\ owner' = "lost"
    /\ UNCHANGED <<kind, vcpu, dog, sent, stop, end, cancelled, due, mailbox, exchange, answers>>

(* run: refused when the control has a reason, else the watchdog starts. *)
RunBegins ==
    /\ owner \in {"launching", "delivered"} /\ vcpu = "off" /\ ~cancelled
    /\ vcpu' = "top" /\ dog' = "watching" /\ sent' = 0
    /\ stop' = FALSE /\ due' = FALSE /\ end' = "none"
    /\ UNCHANGED <<kind, owner, cancelled, mailbox, exchange, answers>>

RunRefused ==
    /\ owner \in {"launching", "delivered"} /\ vcpu = "off" /\ cancelled
    /\ owner' = "lost"
    /\ UNCHANGED <<kind, vcpu, dog, sent, stop, end, cancelled, due, mailbox, exchange, answers>>

(* What the owner does with a returned run: a parent must have printed its  *)
(* marker first, and afterwards have yielded.                               *)
AfterRun ==
    CASE kind = "worker" -> "done"
      [] kind = "parent" /\ owner = "launching" /\ end = "Marker" -> "ready"
      [] kind = "parent" /\ owner = "delivered" /\ end = "Parked" -> "taking"
      [] OTHER -> "lost"

(* take_parent_response: a poisoned mailbox never produces data. *)
Take ==
    /\ owner = "taking"
    /\ IF mailbox.poisoned
       THEN owner' = "lost" /\ UNCHANGED <<mailbox, answers>>
       ELSE /\ owner' = "ready"
            /\ mailbox' = MailboxTake(mailbox)
            /\ answers' = Append(answers, mailbox.output)
    /\ UNCHANGED <<kind, vcpu, dog, sent, stop, end, cancelled, due, exchange>>

-----------------------------------------------------------------------------
(* The thread inside run. *)

(* The head of the loop looks at the control, the flag and the marker; the  *)
(* guest is entered after that, so a flag set in between is not seen.       *)
Top ==
    /\ vcpu = "top"
    /\ stop' = (stop \/ cancelled)
    /\ IF stop' THEN vcpu' = "leaving" /\ end' = "TimedOut"
       ELSE /\ vcpu' = IF end = "none" THEN "entering" ELSE "leaving"
            /\ UNCHANGED end
    /\ UNCHANGED <<host, dog, sent, mailbox>>

Enter ==
    /\ vcpu = "entering" /\ vcpu' = "guest"
    /\ UNCHANGED <<host, dog, sent, stop, end, mailbox>>

(* Exits that change nothing here: console, PCI, a write to a sealed page. *)
GuestExits ==
    /\ vcpu = "guest" /\ vcpu' = "top"
    /\ UNCHANGED <<host, dog, sent, stop, end, mailbox>>

(* The marker of the start: clear_stop_marker removes it afterwards. *)
GuestPrintsMarker ==
    /\ vcpu = "guest" /\ kind = "parent" /\ owner = "launching"
    /\ vcpu' = "top" /\ end' = "Marker"
    /\ UNCHANGED <<host, dog, sent, stop, mailbox>>

GuestReads ==
    /\ vcpu = "guest" /\ kind = "parent"
    /\ vcpu' = "top" /\ mailbox' = MailboxRead(mailbox)
    /\ UNCHANGED <<host, dog, sent, stop, end>>

GuestWrites ==
    /\ vcpu = "guest" /\ kind = "parent"
    /\ vcpu' = "top" /\ mailbox' = MailboxWrite(mailbox)
    /\ UNCHANGED <<host, dog, sent, stop, end>>

GuestCommits ==
    /\ vcpu = "guest" /\ kind = "parent"
    /\ \E wellFormed \in BOOLEAN : mailbox' = MailboxCommit(mailbox, wellFormed)
    /\ vcpu' = "top" /\ end' = "Parked"
    /\ UNCHANGED <<host, dog, sent, stop>>

(* dispatch_fetch: the vCPU waits at its port for the broker, which answers *)
(* within its own timeouts.                                                 *)
GuestFetches ==
    /\ vcpu = "guest" /\ kind = "worker" /\ vcpu' = "broker"
    /\ UNCHANGED <<host, dog, sent, stop, end, mailbox>>

BrokerAnswers ==
    /\ vcpu = "broker" /\ vcpu' = "top"
    /\ UNCHANGED <<host, dog, sent, stop, end, mailbox>>

(* Halt, shutdown, or an error of KVM_RUN. *)
GuestEnds ==
    /\ vcpu = "guest" /\ vcpu' = "leaving"
    /\ end' \in {"Halted", "error"}
    /\ UNCHANGED <<host, dog, sent, stop, mailbox>>

(* EINTR: the run ends only if the flag says so. *)
Interrupted ==
    /\ vcpu = "interrupted"
    /\ IF stop THEN vcpu' = "leaving" /\ end' = "TimedOut"
       ELSE vcpu' = "top" /\ UNCHANGED end
    /\ UNCHANGED <<host, dog, sent, stop, mailbox>>

Leave ==
    /\ vcpu = "leaving" /\ vcpu' = "joining" /\ stop' = TRUE
    /\ UNCHANGED <<host, dog, sent, end, mailbox>>

Join ==
    /\ vcpu = "joining" /\ dog = "off"
    /\ vcpu' = "off" /\ owner' = AfterRun
    /\ UNCHANGED <<kind, dog, sent, stop, end, cancelled, due, mailbox, exchange, answers>>

-----------------------------------------------------------------------------
(* The watchdog. *)

(* It returns when it sees the flag before the deadline. *)
DogReturns ==
    /\ dog = "watching" /\ stop /\ ~due
    /\ dog' = "off"
    /\ UNCHANGED <<host, vcpu, sent, stop, end, mailbox>>

(* Mutant: the flag is not set before the signals. *)
DogFiresSilently ==
    /\ dog = "watching" /\ (due \/ (cancelled /\ ~stop))
    /\ dog' = "signalling"
    /\ UNCHANGED <<host, vcpu, sent, stop, end, mailbox>>

(* The deadline or the control: the flag first, then the signals. *)
DogFires ==
    /\ dog = "watching" /\ (due \/ (cancelled /\ ~stop))
    /\ dog' = "signalling" /\ stop' = TRUE
    /\ UNCHANGED <<host, vcpu, sent, end, mailbox>>

(* A signal ends KVM_RUN and is lost on a thread outside it.  The burst     *)
(* lasts 100 ms, longer than the way from the head of the loop into the     *)
(* guest: its last signal does not fall into that gap.                      *)
DogSignals ==
    /\ dog = "signalling" /\ sent < Signals
    /\ sent = Signals - 1 => vcpu # "entering"
    /\ sent' = sent + 1
    /\ dog' = IF sent' = Signals THEN "off" ELSE dog
    /\ vcpu' = IF vcpu = "guest" THEN "interrupted" ELSE vcpu
    /\ UNCHANGED <<host, stop, end, mailbox>>

-----------------------------------------------------------------------------
(* A cancellation, or the deadline of the work, at any time. *)
CancelRun ==
    /\ ~cancelled /\ cancelled' = TRUE
    /\ UNCHANGED <<kind, owner, vcpu, dog, sent, stop, end, due, mailbox, exchange, answers>>

TimeoutPasses ==
    /\ vcpu # "off" /\ ~due /\ due' = TRUE
    /\ UNCHANGED <<kind, owner, vcpu, dog, sent, stop, end, cancelled, mailbox, exchange, answers>>

Thread == Top \/ Enter \/ BrokerAnswers \/ Interrupted \/ Leave \/ Join
Watchdog == DogReturns \/ DogFires \/ DogSignals
GuestStep == GuestExits \/ GuestPrintsMarker \/ GuestReads \/ GuestWrites \/ GuestCommits
            \/ GuestFetches \/ GuestEnds
Owner == Deliver \/ DeliverRefused \/ RunBegins \/ RunRefused \/ Take

RunNext == Thread \/ Watchdog \/ GuestStep \/ Owner \/ CancelRun \/ TimeoutPasses

(* Both threads are scheduled and a broker call returns.  The guest is      *)
(* obliged to nothing: it may stay inside KVM_RUN for ever.                 *)
RunFairness == WF_runVars(Thread) /\ WF_runVars(Watchdog)

RunSpec == RunInit /\ [][RunNext]_runVars /\ RunFairness

-----------------------------------------------------------------------------
(* A run whose control has a reason or whose timeout passed ends, although  *)
(* the guest may never leave KVM_RUN by itself: the flag is set before the  *)
(* signals, and the signals outlast the gap before the entry.               *)
CellStops == (vcpu # "off" /\ (cancelled \/ due)) ~> (vcpu = "off")

(* "No implicit reset or overwrite can hide a malformed request or replay   *)
(* an unfinished exchange": the nth response the owner takes was written    *)
(* for the nth frame alone, after the guest had read all of it, however the *)
(* guest mixes its ports and wherever its runs are interrupted.             *)
AnswersWhole ==
    \A n \in DOMAIN answers :
        /\ answers[n] # <<>>
        /\ \A k \in DOMAIN answers[n] : answers[n][k] = [exchange |-> n, unread |-> 0]
================================================================================
