------------------------------- MODULE Journal -------------------------------
(***************************************************************************)
(* The operation journal: tools/l4common/journal.c (one writer, under      *)
(* deployment.lock) and tools/l4common/journal_reader.c (a live reader     *)
(* beside the writer, an immutable reader that keeps writers out).         *)
(*                                                                         *)
(* A frame is three units of the file: its header, its payload, the end    *)
(* marker.  The hash chain makes a frame acceptable only as the successor  *)
(* of the one before it, so the file is a sequence of whole frames, then   *)
(* 0 to 2 units of one more, or bytes nobody wrote (a tail that a power    *)
(* loss left extended but not filled).                                     *)
(***************************************************************************)
EXTENDS Naturals, Sequences

CONSTANTS Limit,      \* frames that fit in JOURNAL_LIMIT
          MaxRecords, \* bound on the records offered
          MaxPowerLoss     \* bound on power losses

ASSUME JournalAssumption == Limit \in Nat /\ MaxRecords \in Nat /\ MaxPowerLoss \in Nat

VARIABLES header,  \* "none" (no file or empty), "part", "whole"
          frames,  \* records of the whole frames, in order
          part,    \* units of a frame that is not whole
          damaged, \* does the tail hold bytes that no append wrote?
          synced,  \* number of frames a flush has covered
          writerPc,      \* the writer: "none", "ready", "payload", "marker", "flush"
          poisoned, known, \* its handle: j->poisoned, j->sequence
          offered, acked,  \* records offered so far; <<sequence, record>> confirmed
          live, size, seen, \* the live reader: place, first size, what it accepted
          held,    \* does an immutable reader have the file open?
          powerLosses

file == <<header, frames, part, damaged, synced>>
writer == <<writerPc, poisoned, known, offered, acked>>
reader == <<live, size, seen, held>>
journalVars == <<file, writer, reader, powerLosses>>

Units == 3 * Len(frames) + part

JournalInit == /\ header = "none" /\ frames = <<>> /\ part = 0 /\ damaged = FALSE /\ synced = 0
               /\ writerPc = "none" /\ poisoned = FALSE /\ known = 0 /\ offered = 0 /\ acked = {}
               /\ live = "idle" /\ size = 0 /\ seen = <<>> /\ held = FALSE
               /\ powerLosses = 0

-----------------------------------------------------------------------------
(* The writer.                                                             *)

\* l4_journal_open(create) of an empty file: the header is written and flushed,
\* or the process fails or dies with the header in part.
Create == /\ writerPc = "none" /\ ~held /\ header = "none"
          /\ \/ header' = "whole" /\ writerPc' = "ready"
             \/ header' \in {"part", "none"} /\ UNCHANGED writerPc
          /\ poisoned' = FALSE /\ known' = 0
          /\ UNCHANGED <<frames, part, damaged, synced, offered, acked, reader, powerLosses>>

\* scan: every whole frame must follow from the one before it.
Scans == header = "whole" /\ ~damaged

\* l4_journal_open of what is there: scan with repair.  A torn tail is cut off
\* and the cut flushed, a whole frame is kept whether its writer was told so or
\* not.  A header in part or bytes nobody wrote refuse the journal for good.
Open == /\ writerPc = "none" /\ ~held /\ Scans
        /\ \/ part' = 0 /\ writerPc' = "ready" /\ known' = Len(frames)
              /\ synced' = IF part # 0 THEN Len(frames) ELSE synced
           \/ part' \in {0, part} /\ UNCHANGED <<writerPc, known, synced>>
        /\ poisoned' = FALSE
        /\ UNCHANGED <<header, frames, damaged, offered, acked, reader, powerLosses>>

\* l4_journal_append: refused on a poisoned handle and, before a byte is written,
\* on a full journal.
AppendBegin == /\ writerPc = "ready" /\ ~poisoned
               /\ offered < MaxRecords /\ known < Limit
               /\ offered' = offered + 1
               /\ part' = 1 /\ writerPc' = "payload"
               /\ UNCHANGED <<header, frames, damaged, synced, poisoned, known, acked,
                              reader, powerLosses>>

AppendPayload == /\ writerPc = "payload"
                 /\ part' = 2 /\ writerPc' = "marker"
                 /\ UNCHANGED <<header, frames, damaged, synced, poisoned, known, offered,
                                acked, reader, powerLosses>>

\* The end marker makes the frame whole to every later scan.
AppendMarker == /\ writerPc = "marker"
                /\ frames' = Append(frames, offered) /\ part' = 0 /\ writerPc' = "flush"
                /\ UNCHANGED <<header, damaged, synced, poisoned, known, offered, acked,
                               reader, powerLosses>>

\* Mutant: success is reported without the flush.
AppendFlush_NoFlush == /\ writerPc = "flush"
                       /\ known' = known + 1 /\ writerPc' = "ready"
                       /\ acked' = acked \cup {<<known + 1, offered>>}
                       /\ UNCHANGED <<header, frames, part, damaged, synced, poisoned, offered,
                                      reader, powerLosses>>

\* FlushFileBuffers; only now is the caller told the sequence number.
AppendFlush == /\ writerPc = "flush"
               /\ synced' = Len(frames)
               /\ known' = known + 1 /\ writerPc' = "ready"
               /\ acked' = acked \cup {<<known + 1, offered>>}
               /\ UNCHANGED <<header, frames, part, damaged, poisoned, offered, reader, powerLosses>>

\* A write or the flush fails: the handle is poisoned, the file is left alone.
AppendFails == /\ writerPc \in {"payload", "marker", "flush"}
               /\ writerPc' = "ready" /\ poisoned' = TRUE
               /\ UNCHANGED <<file, known, offered, acked, reader, powerLosses>>

\* l4_journal_close, or the death of the process in the middle of an append.
WriterGone == /\ writerPc # "none"
              /\ writerPc' = "none"
              /\ UNCHANGED <<file, poisoned, known, offered, acked, reader, powerLosses>>

-----------------------------------------------------------------------------
(* The readers.                                                            *)

\* l4_journal_reader_open_live: the size, the bytes, and the size again.
LiveSize == /\ live = "idle" /\ header = "whole"
            /\ live' = "read" /\ size' = Units
            /\ UNCHANGED <<file, writer, seen, held, powerLosses>>

\* validate: a frame that is not whole yet, and a file that got shorter, is
\* ERROR_IO_PENDING; bytes nobody wrote are refused.
LiveRead == /\ live = "read"
            /\ \/ /\ size <= Units /\ size % 3 = 0 /\ ~damaged
                  /\ seen' = SubSeq(frames, 1, size \div 3) /\ live' = "compare"
               \/ /\ size > Units \/ size % 3 # 0 \/ damaged
                  /\ seen' = <<>> /\ live' = "idle"
            /\ UNCHANGED <<file, writer, size, held, powerLosses>>

LiveCompare == /\ live = "compare"
               /\ live' = IF size = Units THEN "accepted" ELSE "idle"
               /\ UNCHANGED <<file, writer, size, seen, held, powerLosses>>

LiveClose == /\ live = "accepted"
             /\ live' = "idle"
             /\ UNCHANGED <<file, writer, size, seen, held, powerLosses>>

\* An immutable reader opens without sharing writes, so it waits for the writer
\* to be gone and keeps the next one out; a torn tail is an error to it.
HoldImmutable == /\ ~held /\ writerPc = "none"
                 /\ Scans /\ part = 0
                 /\ held' = TRUE
                 /\ UNCHANGED <<file, writer, live, size, seen, powerLosses>>

ReleaseImmutable == /\ held
                    /\ held' = FALSE
                    /\ UNCHANGED <<file, writer, live, size, seen, powerLosses>>

-----------------------------------------------------------------------------
\* Every process is gone, and what no flush covered may be there, be torn, be
\* lost or be bytes nobody wrote.
JournalPowerLoss == /\ powerLosses < MaxPowerLoss /\ powerLosses' = powerLosses + 1
                    /\ \E n \in synced .. Len(frames) :
                          /\ frames' = SubSeq(frames, 1, n)
                          /\ \/ part' = 0 /\ UNCHANGED damaged
                             \/ /\ n < Len(frames) \/ part > 0
                                /\ part' \in {1, 2}
                                /\ damaged' \in {damaged, TRUE}
                    /\ writerPc' = "none" /\ live' = "idle" /\ held' = FALSE
                    /\ UNCHANGED <<header, synced, poisoned, known, offered, acked, size, seen>>

JournalNext == \/ Create \/ Open \/ AppendBegin \/ AppendPayload \/ AppendMarker \/ AppendFlush
               \/ AppendFails \/ WriterGone
               \/ LiveSize \/ LiveRead \/ LiveCompare \/ LiveClose
               \/ HoldImmutable \/ ReleaseImmutable
               \/ JournalPowerLoss

JournalSpec == JournalInit /\ [][JournalNext]_journalVars

-----------------------------------------------------------------------------
(* Properties.                                                             *)

\* Every variable stays in its set; a handle never knows of more frames than
\* the file has.
JournalTypeOK == /\ header \in {"none", "part", "whole"}
                 /\ frames \in Seq(1 .. MaxRecords) /\ Len(frames) <= Limit
                 /\ part \in 0 .. 2 /\ damaged \in BOOLEAN /\ synced \in 0 .. Len(frames)
                 /\ writerPc \in {"none", "ready", "payload", "marker", "flush"}
                 /\ poisoned \in BOOLEAN /\ known \in 0 .. Limit
                 /\ offered \in 0 .. MaxRecords /\ acked \subseteq (1 .. Limit) \X (1 .. MaxRecords)
                 /\ live \in {"idle", "read", "compare", "accepted"} /\ size \in 0 .. 3 * Limit
                 /\ seen \in Seq(1 .. MaxRecords) /\ held \in BOOLEAN
                 /\ powerLosses \in 0 .. MaxPowerLoss

\* A record its writer was told of is in the file under the sequence number it
\* was told, through crashes, repairs and power losses (l4_journal_append).
AckedKept == \A a \in acked : a[1] <= Len(frames) /\ frames[a[1]] = a[2]

=============================================================================
