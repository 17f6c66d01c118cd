---------------------------- MODULE FileTool ----------------------------
(***************************************************************************)
(* The transfer of files over diagnostics (uds_file_tool.c, with the       *)
(* services 36, 37 and 38 that call it).  The reader of the CAN bus starts *)
(* a transfer, stores or reads its blocks and ends it; the task of the     *)
(* tool watches every transfer from a loop that wakes each TRANSMIT_       *)
(* TIMEOUT and ends a transfer nothing was heard of.  Both run             *)
(* finish_all_deals on the same static variables without a lock.           *)
(*                                                                         *)
(* A step ends where the code calls the file system or the system, which   *)
(* is where another thread gets its turn.  Contents are counted in blocks, *)
(* and the services are served in test mode, in which alone they reach the *)
(* tool.                                                                   *)
(***************************************************************************)
EXTENDS Integers, Sequences, FiniteSets

CONSTANTS Files,        \* names of files
          MaxBlocks,    \* bound: blocks of a file
          FtMbox,       \* places in the tool's mailbox, MBOX_M
          MaxCommands   \* bound: requests of the tester

ASSUME FtAssumption ==
  {MaxBlocks, FtMbox, MaxCommands} \subseteq Nat \ {0} /\ "none" \notin Files

VARIABLES
  ft,        \* static variables of uds_file_tool.c
  disk,      \* size of each file, or Absent
  want,      \* history: the size each file is to get
  rd,        \* the reader: its command and how far it is
  loop,      \* the task: where its loop is
  ftBox,     \* START_TIMEOUT_TIMER messages in the mailbox
  overlap,   \* history: finish_all_deals ran in both threads at once, or into a start
  commands   \* used up of the bound

ftVars == <<ft, disk, want, rd, loop, ftBox, overlap, commands>>

Absent == -1
NoFile == "none"
Sizes == 0..MaxBlocks
Kinds == {"save", "get", "block", "exit", "delete"}
ReaderIdle == [at |-> "idle", kind |-> "exit", file |-> NoFile, size |-> 0]
ReaderStates == {"idle", "busySet", "posted", "closing", "removing", "resetting"}
LoopStates == {"ready", "sleeping", "closing", "removing", "resetting", "woken"}
Finishing == {"closing", "removing", "resetting"}

IdleTool == [stream |-> NoFile, path |-> NoFile, exp |-> 0, size |-> 0, seq |-> 1,
             busy |-> FALSE, hasNew |-> FALSE, deal |-> "IDLE"]

FtInit ==
  /\ ft = IdleTool
  /\ disk \in [Files -> {Absent, MaxBlocks}] /\ want = disk
  /\ rd = ReaderIdle /\ loop = "ready" /\ ftBox = 0
  /\ overlap = FALSE /\ commands = 0

----------------------------------------------------------------------------
(* finish_all_deals, run by either thread: close, remove a torso, reset.   *)

\* Mutant of Torso: a file is never removed.
TorsoKept == FALSE
Torso == ft.deal = "SAVE" /\ ft.exp # 0 /\ ft.size # ft.exp

Reset == [IdleTool EXCEPT !.stream = ft.stream, !.hasNew = ft.hasNew]

Remove(f) == [disk EXCEPT ![f] = Absent]

CloseStream == ft' = [ft EXCEPT !.stream = NoFile] /\ UNCHANGED disk
RemoveTorso ==
  /\ disk' = IF Torso /\ ft.path # NoFile THEN Remove(ft.path) ELSE disk
  /\ UNCHANGED ft
ResetTool == ft' = Reset /\ UNCHANGED disk

\* One step of finish_all_deals, from a place to the next; the caller goes on at end.
FinishStep(from, to, end) ==
  \/ from = "closing" /\ to = "removing" /\ CloseStream
  \/ from = "removing" /\ to = "resetting" /\ RemoveTorso
  \/ from = "resetting" /\ to = end /\ ResetTool

----------------------------------------------------------------------------
(* The reader: services 38, 36 and 37.                                     *)

CanStart == ~ft.busy /\ ft.stream = NoFile

Begin == rd.at = "idle" /\ commands < MaxCommands /\ commands' = commands + 1

\* start_save_file and start_read_file up to is_tool_busy.
StartTransfer(kind, f, n) ==
  /\ Begin /\ CanStart
  /\ IF kind = "save" THEN disk[f] = Absent ELSE disk[f] # Absent
  /\ ft' = [ft EXCEPT !.busy = TRUE]
  /\ rd' = [ReaderIdle EXCEPT !.at = "busySet", !.kind = kind, !.file = f, !.size = n]
  /\ overlap' = (overlap \/ loop \in Finishing)
  /\ UNCHANGED <<disk, want, loop, ftBox>>

\* The message to the task; when the mailbox is full the start is given up as it is.
PostTimer ==
  /\ rd.at = "busySet"
  /\ IF ftBox < FtMbox
     THEN ftBox' = ftBox + 1 /\ rd' = [rd EXCEPT !.at = "posted"]
     ELSE rd' = ReaderIdle /\ UNCHANGED ftBox
  /\ UNCHANGED <<ft, disk, want, loop, overlap, commands>>

\* fopen succeeds, or fails and leaves the tool busy with nothing; an empty file is not read.
Open ==
  /\ rd.at = "posted"
  /\ LET f == rd.file
         n == IF rd.kind = "save" THEN rd.size ELSE disk[f]
         named == IF rd.kind = "get" /\ n = 0 THEN [ft EXCEPT !.exp = 0]
                  ELSE [ft EXCEPT !.exp = n, !.path = f] IN
     \/ /\ rd.kind = "save" \/ n > 0
        /\ ft' = [named EXCEPT !.stream = f, !.deal = IF rd.kind = "save" THEN "SAVE" ELSE "GET"]
        /\ disk' = IF rd.kind = "save" THEN [disk EXCEPT ![f] = 0] ELSE disk
        /\ want' = IF rd.kind = "save" THEN [want EXCEPT ![f] = rd.size] ELSE want
     \/ ft' = named /\ UNCHANGED <<disk, want>>
  /\ rd' = ReaderIdle
  /\ overlap' = (overlap \/ loop \in Finishing)
  /\ UNCHANGED <<loop, ftBox, commands>>

\* add_data of one block: written and counted; the last one ends the transfer, one too
\* many removes the file as well.  A failed write changes nothing.
AddData(sq) ==
  /\ Begin /\ ft.stream # NoFile /\ ft.busy /\ ft.deal = "SAVE" /\ ft.seq = sq
  /\ LET size == ft.size + 1 IN
     \/ /\ ft' = [ft EXCEPT !.hasNew = TRUE, !.size = size,
                            !.seq = IF size < ft.exp THEN @ + 1 ELSE @]
        /\ disk' = IF size > ft.exp /\ ft.path # NoFile THEN Remove(ft.path)
                   ELSE IF disk[ft.stream] = Absent THEN disk
                   ELSE [disk EXCEPT ![ft.stream] = @ + 1]
        /\ rd' = IF size < ft.exp THEN rd
                 ELSE [ReaderIdle EXCEPT !.at = "closing", !.kind = "block"]
        /\ overlap' = (overlap \/ (size >= ft.exp /\ loop \in Finishing))
     \/ UNCHANGED <<ft, disk, rd, overlap>>
  /\ UNCHANGED <<want, loop, ftBox>>

\* read_data of one block; the last one ends the transfer, and so does the end of a file
\* that has become shorter.
ReadData(sq) ==
  /\ Begin /\ ft.stream # NoFile /\ ft.busy /\ ft.deal = "GET" /\ ft.seq = sq
  /\ LET size == ft.size + 1
         over == disk[ft.stream] < size \/ size = ft.exp IN
     /\ ft' = IF disk[ft.stream] < size THEN ft
              ELSE [ft EXCEPT !.hasNew = TRUE, !.size = size, !.seq = @ + 1]
     /\ rd' = IF over THEN [ReaderIdle EXCEPT !.at = "closing", !.kind = "block"] ELSE rd
     /\ overlap' = (overlap \/ (over /\ loop \in Finishing))
  /\ UNCHANGED <<disk, want, loop, ftBox>>

\* Service 37: stop_action.
Exit ==
  /\ Begin
  /\ rd' = [ReaderIdle EXCEPT !.at = "closing"]
  /\ overlap' = (overlap \/ loop \in Finishing)
  /\ UNCHANGED <<ft, disk, want, loop, ftBox>>

\* Service 38 removes a file the tester names, were it the one that is open.
DeleteFile(f) ==
  /\ Begin /\ disk[f] # Absent
  /\ disk' = Remove(f)
  /\ UNCHANGED <<ft, rd, want, loop, ftBox, overlap>>

ReaderFinish ==
  /\ rd.at \in Finishing
  /\ \E to \in {"removing", "resetting", "idle"} :
       /\ FinishStep(rd.at, to, "idle")
       /\ rd' = IF to = "idle" THEN ReaderIdle ELSE [rd EXCEPT !.at = to]
  /\ UNCHANGED <<want, loop, ftBox, overlap, commands>>

FtTester ==
  \/ \E f \in Files, n \in Sizes : StartTransfer("save", f, n)
  \/ \E f \in Files : StartTransfer("get", f, 0) \/ DeleteFile(f)
  \/ \E sq \in 1..(MaxBlocks + 1) : AddData(sq) \/ ReadData(sq)
  \/ Exit
FtReaderNext == PostTimer \/ Open \/ ReaderFinish

----------------------------------------------------------------------------
(* The task of the tool: start_timeout_timer.                              *)

TakeTimer ==
  /\ loop = "ready" /\ ftBox > 0
  /\ ftBox' = ftBox - 1
  /\ loop' = IF ft.busy THEN "sleeping" ELSE "ready"
  /\ UNCHANGED <<ft, disk, want, rd, overlap, commands>>

\* Awake: when nothing was heard since the last time it ends whatever goes on.
Wake ==
  /\ loop = "sleeping"
  /\ IF ft.hasNew
     THEN loop' = "woken" /\ UNCHANGED overlap
     ELSE loop' = "closing" /\ overlap' = (overlap \/ rd.at # "idle")
  /\ UNCHANGED <<ft, disk, want, rd, ftBox, commands>>

LoopFinish ==
  /\ loop \in Finishing
  /\ \E to \in {"removing", "resetting", "woken"} :
       FinishStep(loop, to, "woken") /\ loop' = to
  /\ UNCHANGED <<want, rd, ftBox, overlap, commands>>

\* Mutant of Again: the loop ends after one round.
AgainOnce ==
  /\ loop = "woken" /\ loop' = "ready"
  /\ ft' = [ft EXCEPT !.hasNew = FALSE]
  /\ UNCHANGED <<disk, want, rd, ftBox, overlap, commands>>

Again ==
  /\ loop = "woken"
  /\ ft' = [ft EXCEPT !.hasNew = FALSE]
  /\ loop' = IF ft.busy THEN "sleeping" ELSE "ready"
  /\ UNCHANGED <<disk, want, rd, ftBox, overlap, commands>>

FtTaskNext == TakeTimer \/ Wake \/ LoopFinish \/ Again

FtNext == FtTester \/ FtReaderNext \/ FtTaskNext
FtSpec == FtInit /\ [][FtNext]_ftVars

----------------------------------------------------------------------------
(* Properties.                                                             *)

FtTypeOK ==
  /\ ft \in [stream : Files \cup {NoFile}, path : Files \cup {NoFile}, exp : Sizes,
             size : 0..(MaxBlocks + 1), seq : 1..(MaxBlocks + 1), busy : BOOLEAN,
             hasNew : BOOLEAN, deal : {"IDLE", "SAVE", "GET"}]
  /\ disk \in [Files -> Sizes \cup {Absent, MaxBlocks + 1}]
  /\ want \in [Files -> Sizes \cup {Absent}]
  /\ rd \in [at : ReaderStates, kind : Kinds, file : Files \cup {NoFile}, size : Sizes]
  /\ loop \in LoopStates /\ ftBox \in 0..FtMbox
  /\ overlap \in BOOLEAN /\ commands \in 0..MaxCommands

\* However a transfer ended, by its last block, by the tester, by silence or by a block too
\* many, what is left of it on the disk is the whole file or nothing
\* (uds_file_tool.c:183-188, 217-222), unless both threads ended transfers at once.
NoTorso ==
  ~overlap /\ rd.at = "idle" /\ ~ft.busy /\ loop \notin Finishing =>
    \A f \in Files : disk[f] \in {Absent, want[f]}

\* A tester that falls silent, at whatever point of an exchange, finds the tool not busy
\* afterwards, also when no file could be opened or the mailbox had no place for the timer
\* (uds_file_tool.c:52-71, 97-116, 239-249), and no file left open: the latter as long as
\* no transfer was ended, or begun, in one thread while the other was ending one.
ToolIsReleased == <>[](~ft.busy /\ (overlap \/ ft.stream = NoFile))

\* The timer is there to watch the transfer (uds_file_tool.c:53, uds_file_tool.h:10), and
\* to end it is to free its resources (uds_file_tool.c:208), without that exception: once
\* the tester is silent another transfer can begin.  Where the timer ends a transfer just
\* as it begins, be it the timer of one that is over, the file stays open, the tool is not
\* busy, no timer watches it, and both starts refuse (uds_file_tool.c:48, 92).
TimerFreesTool == <>[]CanStart
=============================================================================
