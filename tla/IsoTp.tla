------------------------------ MODULE IsoTp ------------------------------
(***************************************************************************)
(* The transport of the diagnostic messages over CAN (uds.c with           *)
(* flowControlFrame.c): requests and responses longer than a frame travel  *)
(* as a first frame and numbered consecutive frames, released in blocks by *)
(* flow control frames of the receiver.  The unit works on static buffers  *)
(* and counters that requests, responses and its own flow control share.   *)
(*                                                                         *)
(* The tester follows ISO 15765-2: it numbers frames modulo 16, stops on a *)
(* gap, and may give up an exchange at any time.  Messages are counted in  *)
(* frames; the bus keeps the order and may lose consecutive and flow       *)
(* control frames.                                                         *)
(***************************************************************************)
EXTENDS Naturals, Sequences

CONSTANTS RequestLens,   \* lengths of the tester's requests, in frames
          ResponseLens,  \* lengths of the unit's responses, in frames
          BlockSizes,    \* block sizes the tester asks for, 0 for no limit
          WaitBlocks,    \* WAIT_BLOCKS, the block size the unit asks for
          SnLimit,       \* numbers a consecutive frame can have
          Filled,        \* requests whose sixth byte, the last of a first frame, is the
                         \* value NOT_INVOLVED_BYTE that fills up short frames
          MaxExchanges,  \* bound: requests of the tester
          MaxLosses,     \* bound: frames lost
          MaxGivenUp     \* bound: exchanges the tester gives up

ASSUME TpAssumption ==
  /\ RequestLens \subseteq Nat \ {0} /\ ResponseLens \subseteq Nat \ {0}
  /\ BlockSizes \subseteq Nat /\ Filled \subseteq Nat
  /\ {WaitBlocks, SnLimit, MaxExchanges} \subseteq Nat \ {0}
  /\ {MaxLosses, MaxGivenUp} \subseteq Nat

VARIABLES
  rx,        \* the unit's reception: static variables of uds.c
  tx,        \* the unit's transmission
  tester,    \* the tester
  toUnit, toTester,   \* frames on the bus
  served,    \* history: pieces of the last request assembled from several frames
  overwritten,  \* history: a response was overwritten while it waited to be continued
  losses, givenUp   \* used up of the bounds

tpVars == <<rx, tx, tester, toUnit, toTester, served, overwritten, losses, givenUp>>

\* A piece is the part of message m that its i-th frame carries; SF and FF carry piece 0.
Frame(t, m, i, n) == [t |-> t, m |-> m, i |-> i, n |-> n]
SF(m) == Frame("SF", m, 0, 1)
FF(m, n) == Frame("FF", m, 0, n)
CF(m, i, sn) == Frame("CF", m, i, sn)
FC(bs) == Frame("FC", 0, 0, bs)

EmptyRx == [frame |-> 0, len |-> 0, pieces |-> <<>>, waiting |-> FALSE, blocks |-> WaitBlocks]
EmptyTx == [m |-> 0, len |-> 0, sent |-> 0, frame |-> 0, waitFC |-> FALSE]
TesterIdle == [m |-> 0, len |-> 0, next |-> 0, allowed |-> 0, busy |-> FALSE, got |-> <<>>,
               want |-> 0, left |-> 0, result |-> "none"]

TpInit ==
  /\ rx = EmptyRx /\ tx = EmptyTx
  /\ tester = TesterIdle /\ toUnit = <<>> /\ toTester = <<>>
  /\ served = <<>> /\ overwritten = FALSE /\ losses = 0 /\ givenUp = 0

----------------------------------------------------------------------------
(* The unit: handle_uds_request and what it calls.                         *)

\* 0x20 | currentFrame: what is no consecutive frame any more from SnLimit on.
Numbered(m, i, n) == IF n < SnLimit THEN CF(m, i, n) ELSE Frame("none", m, i, 0)

\* sendWaitForRecieve: the response buffer becomes the flow control frame, although the
\* response may wait for a flow control of the tester, which then continues what is there now.
FlowControlled ==
  /\ tx' = [tx EXCEPT !.m = 0, !.len = 2]
  /\ toTester' = Append(toTester, FC(WaitBlocks))
  /\ overwritten' = (overwritten \/ tx.waitFC)

\* Mutant of Reception: the frames counted are not forgotten.
ReceptionKept(f) == [rx EXCEPT !.len = f.n, !.pieces = <<[m |-> f.m, i |-> 0]>>, !.waiting = TRUE,
                               !.frame = @ + 1, !.blocks = WaitBlocks]

\* A first frame clears the reception and begins another.
Reception(f) == [EmptyRx EXCEPT !.len = f.n, !.pieces = <<[m |-> f.m, i |-> 0]>>,
                                !.waiting = TRUE, !.frame = 1]

FirstFrame(f) ==
  /\ f.t = "FF" /\ f.m \notin Filled
  /\ rx' = Reception(f)
  /\ FlowControlled
  /\ UNCHANGED served

Expected(f) == rx.waiting /\ f.t = "CF" /\ f.n = rx.frame % SnLimit /\ rx.frame < SnLimit

Blocks(last) == IF last THEN WaitBlocks ELSE rx.blocks - 1

\* A consecutive frame that is expected, and is not the last one.
NextFrame(f) ==
  /\ Expected(f) /\ rx.frame + 1 < rx.len
  /\ LET last == rx.blocks = 1 IN
     /\ rx' = [rx EXCEPT !.frame = @ + 1, !.pieces = Append(@, [m |-> f.m, i |-> f.i]),
                         !.blocks = Blocks(last)]
     /\ IF last THEN FlowControlled ELSE UNCHANGED <<tx, toTester, overwritten>>
  /\ UNCHANGED served

\* send_uds of a new response: one frame, or the first of several.
Responded(m, n) ==
  /\ tx' = IF n > 1 THEN [m |-> m, len |-> n, sent |-> 1, frame |-> 1, waitFC |-> TRUE]
           ELSE IF n = 1 THEN [EmptyTx EXCEPT !.m = m, !.len = 1] ELSE EmptyTx
  /\ toTester' = IF n = 0 THEN toTester
                 ELSE Append(toTester, IF n = 1 THEN SF(m) ELSE FF(m, n))

\* A request is complete: the service answers it, both buffers having been cleared.
Dispatch(m) ==
  /\ \E n \in ResponseLens : Responded(m, n)
  /\ rx' = EmptyRx
  /\ UNCHANGED overwritten

LastFrame(f) ==
  /\ Expected(f) /\ rx.frame + 1 >= rx.len
  /\ served' = Append(rx.pieces, [m |-> f.m, i |-> f.i])
  /\ Dispatch(f.m)

\* What is neither awaited nor the beginning of a request to the unit, a first frame that
\* looks filled up included.
Stray(f) == \/ f.t = "CF" /\ ~Expected(f)
            \/ f.t = "FF" /\ f.m \in Filled

\* A single frame is a request, and so is a stray one: one of its bytes is taken for a
\* service, most of them unknown.
OtherFrame(f) ==
  /\ \/ f.t = "SF" /\ Dispatch(f.m)
     \/ Stray(f) /\ Responded(0, 0) /\ rx' = EmptyRx /\ UNCHANGED overwritten
     \/ Stray(f) /\ Dispatch(0)
  /\ UNCHANGED served

\* Mutant of Released: one frame less than was released.
ReleasedLess(bs) == IF bs = 0 THEN tx.len - tx.sent ELSE bs - 1

AwaitsFC == tx.waitFC /\ tx.len # 0

\* Nothing is left to send: only a response that was overwritten can still wait then.
Overrun == tx.sent >= tx.len

\* Frames a flow control frame releases: with a block size as many, past the end too; without
\* one those that are left, and one when none is.
Released(bs) == IF bs # 0 THEN bs ELSE IF Overrun THEN 1 ELSE tx.len - tx.sent

SentUpTo(k) == IF tx.sent + k > tx.len THEN tx.len ELSE tx.sent + k

Continued(bs) ==
  LET k == Released(bs)
      sent == SentUpTo(k) IN
  /\ toTester' = toTester \o [j \in 1..k |->
       Numbered(IF tx.sent + j <= tx.len THEN tx.m ELSE 0, tx.sent + j - 1, tx.frame + j - 1)]
  /\ tx' = IF bs # 0 /\ sent = tx.len THEN EmptyTx
           ELSE [tx EXCEPT !.sent = sent, !.frame = @ + k, !.waitFC = (bs # 0)]

\* A flow control frame clears the reception; it continues a response that waits for it.  To
\* copy a block of less than nothing is undefined: the unit fails and starts again.
FlowControl(f) ==
  /\ f.t = "FC"
  /\ rx' = EmptyRx
  /\ \/ AwaitsFC /\ (Overrun => f.n = 0) /\ Continued(f.n)
     \/ AwaitsFC /\ Overrun /\ f.n # 0 /\ tx' = EmptyTx /\ UNCHANGED toTester
     \/ ~AwaitsFC /\ UNCHANGED <<tx, toTester>>
  /\ UNCHANGED <<served, overwritten>>

UnitReceives ==
  /\ toUnit # <<>> /\ toUnit' = Tail(toUnit)
  /\ LET f == Head(toUnit) IN
     FirstFrame(f) \/ NextFrame(f) \/ LastFrame(f) \/ OtherFrame(f) \/ FlowControl(f)
  /\ UNCHANGED <<tester, losses, givenUp>>

----------------------------------------------------------------------------
(* The tester and the bus.                                                 *)

TesterSends(n) ==
  /\ ~tester.busy /\ tester.m < MaxExchanges
  /\ LET m == tester.m + 1 IN
     /\ tester' = [TesterIdle EXCEPT !.m = m, !.len = n, !.next = 1, !.busy = TRUE]
     /\ toUnit' = Append(toUnit, IF n = 1 THEN SF(m) ELSE FF(m, n))
  /\ UNCHANGED <<rx, tx, toTester, served, overwritten, losses, givenUp>>

\* The request is on its way as a whole.
RequestSent == tester.next >= tester.len

TesterContinues ==
  /\ tester.busy /\ ~RequestSent /\ tester.allowed > 0
  /\ toUnit' = Append(toUnit, CF(tester.m, tester.next, tester.next % SnLimit))
  /\ tester' = [tester EXCEPT !.next = @ + 1, !.allowed = @ - 1]
  /\ UNCHANGED <<rx, tx, toTester, served, overwritten, losses, givenUp>>

\* The tester begins to receive message f.m and releases a block of it.
Receiving(f, bs) == [tester EXCEPT !.got = <<[m |-> f.m, i |-> 0]>>, !.want = f.n, !.left = bs]

TesterFlow(f) ==
  /\ f.t = "FC" /\ toUnit' = toUnit
  /\ tester' = IF tester.busy /\ ~RequestSent THEN [tester EXCEPT !.allowed = f.n] ELSE tester

TesterSingle(f) ==
  /\ f.t = "SF" /\ toUnit' = toUnit
  /\ tester' = IF tester.busy /\ RequestSent
               THEN [tester EXCEPT !.busy = FALSE, !.got = <<>>, !.want = 0, !.result = "single"]
               ELSE tester

TesterFirst(f) ==
  /\ f.t = "FF"
  /\ IF tester.busy /\ RequestSent
     THEN \E bs \in BlockSizes : tester' = Receiving(f, bs) /\ toUnit' = Append(toUnit, FC(bs))
     ELSE UNCHANGED <<tester, toUnit>>

\* The next frame in order: taken, and the next block released when this one is over; a
\* gap ends the reception.
TesterConsecutive(f) ==
  /\ f.t \in {"CF", "none"}
  /\ LET n == Len(tester.got)
         got == Append(tester.got, [m |-> f.m, i |-> f.i]) IN
     IF ~tester.busy \/ n = 0 THEN UNCHANGED <<tester, toUnit>>
     ELSE IF f.t = "none" \/ f.n # n % SnLimit
     THEN /\ tester' = [tester EXCEPT !.busy = FALSE, !.got = <<>>, !.want = 0, !.result = "gap"]
          /\ UNCHANGED toUnit
     ELSE IF n + 1 >= tester.want
     THEN /\ tester' = [tester EXCEPT !.got = got, !.busy = FALSE, !.result = "whole"]
          /\ UNCHANGED toUnit
     ELSE IF tester.left = 1
     THEN \E bs \in BlockSizes : /\ tester' = [tester EXCEPT !.got = got, !.left = bs]
                                 /\ toUnit' = Append(toUnit, FC(bs))
     ELSE /\ tester' = [tester EXCEPT !.got = got, !.left = IF @ = 0 THEN 0 ELSE @ - 1]
          /\ UNCHANGED toUnit

TesterReceives ==
  /\ toTester # <<>> /\ toTester' = Tail(toTester)
  /\ LET f == Head(toTester) IN
     TesterFlow(f) \/ TesterSingle(f) \/ TesterFirst(f) \/ TesterConsecutive(f)
  /\ UNCHANGED <<rx, tx, served, overwritten, losses, givenUp>>

TesterGivesUp ==
  /\ tester.busy /\ givenUp < MaxGivenUp
  /\ givenUp' = givenUp + 1
  /\ tester' = [tester EXCEPT !.busy = FALSE, !.got = <<>>, !.want = 0]
  /\ UNCHANGED <<rx, tx, toUnit, toTester, served, overwritten, losses>>

Losable(f) == f.t \in {"CF", "FC"}

Lose ==
  /\ losses < MaxLosses /\ losses' = losses + 1
  /\ \/ /\ toUnit # <<>> /\ Losable(Head(toUnit))
        /\ toUnit' = Tail(toUnit) /\ UNCHANGED toTester
     \/ /\ toTester # <<>> /\ Losable(Head(toTester))
        /\ toTester' = Tail(toTester) /\ UNCHANGED toUnit
  /\ UNCHANGED <<rx, tx, tester, served, overwritten, givenUp>>

TpTester == (\E n \in RequestLens : TesterSends(n)) \/ TesterGivesUp \/ Lose
TpProgress == UnitReceives \/ TesterReceives \/ TesterContinues
TpNext == TpTester \/ TpProgress
TpSpec == TpInit /\ [][TpNext]_tpVars

----------------------------------------------------------------------------
(* Properties.                                                             *)

Results == {"none", "single", "whole", "gap"}
Pieces == [m : 0..MaxExchanges, i : Nat]

TpTypeOK ==
  /\ rx \in [frame : Nat, len : Nat, pieces : Seq(Pieces), waiting : BOOLEAN,
             blocks : 1..WaitBlocks]
  /\ tx \in [m : 0..MaxExchanges, len : Nat, sent : Nat, frame : Nat, waitFC : BOOLEAN]
  /\ tester \in [m : 0..MaxExchanges, len : Nat, next : Nat, allowed : Nat, busy : BOOLEAN,
                 got : Seq(Pieces), want : Nat, left : Nat, result : Results]
  /\ served \in Seq(Pieces) /\ overwritten \in BOOLEAN
  /\ losses \in 0..MaxLosses /\ givenUp \in 0..MaxGivenUp

\* The pieces are those of one message, each in its place.
InOrder(s) == \A k \in 1..Len(s) : s[k] = [m |-> s[1].m, i |-> k - 1]

\* What arrives in several frames is one message of the sender, piece by piece, on either
\* side, whatever was lost or given up before, although the unit's buffer, counters and flag
\* nextFlowControl serve requests, responses and its own flow control (uds.c:81-90, 107-144,
\* 269-345); of responses, until a request has overwritten one that waited to be continued.
ArrivesWhole ==
  InOrder(served) /\ (tester.result = "whole" /\ ~overwritten => InOrder(tester.got))

\* The request is in several frames, and the first of them looks filled up.
LooksFilled == tester.len > 1 /\ tester.m \in Filled

\* Every exchange is answered: without a loss on the bus neither side waits for a frame the
\* other does not send, whatever block sizes they ask for and whatever was given up before,
\* as long as the numbers of the frames suffice (uds.c:88, 132-138, 330-345) and the first
\* frame of the request does not look filled up (uds.c:105).
ExchangeEnds ==
  [](tester.busy /\ tester.len <= SnLimit /\ ~LooksFilled => <>(~tester.busy \/ losses > 0))

=============================================================================
