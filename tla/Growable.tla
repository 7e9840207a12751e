------------------------------ MODULE Growable ------------------------------
(***************************************************************************)
(* The Growable extension (include/bitsery/ext/growable.h) between a       *)
(* writer and a reader whose versions of the same objects differ.  The     *)
(* writer's document is a tree: a session's items are values and nested    *)
(* sessions.  It is not fixed beforehand: the writer decides item by item. *)
(* The reader's version is decided the same way, and is compatible with    *)
(* the writer's in the sense the extension allows: inside a session one of *)
(* the two may stop before the other does ("new fields can only be added   *)
(* at the end", tests/serialization_ext_growable.cpp); where both have an  *)
(* item it is of the same kind; outside every session both have the same   *)
(* items.                                                                  *)
(*                                                                         *)
(* The calls of a session are not one step: fnc(ser, obj) runs between the *)
(* header and the fix-up, so opening and closing a session are actions and *)
(* what the extension keeps in local variables meanwhile is on a stack.    *)
(* The reader may be given a part of the bytes only.                       *)
(***************************************************************************)
EXTENDS InputBufferOps, OutputBufferOps, SequencesExt

CONSTANTS ValueSizes,  \* sizes of the values
          MaxItems,    \* bound: items in a session, of either version
          MaxDepth,    \* bound: sessions inside one another
          MaxBytes     \* bound: size of the document

ASSUME ValueSizesAssumption == ValueSizes \subseteq Nat \ {0}
ASSUME BoundsAssumption ==
  MaxItems \in Nat /\ MaxDepth \in Nat /\ MaxBytes \in 0 .. 255

VARIABLES
  phase,  \* "writing", "reading", "done"
  wr,     \* the output adapter
  wpath,  \* where the writer is: the indices of the open sessions and of the next item
  wopen,  \* startPos of each open session
  items,  \* ghost: what was written, by path; a session is << >>
  at,     \* ghost: the offset each item was written at
  delivered, \* how many bytes the reader was given
  rd,     \* the input adapter
  rpath,  \* where the reader is
  ropen,  \* the local variables of each open session
  last    \* the last value read, and the path it was read at

vars == <<phase, wr, wpath, wopen, items, at, delivered, rd, rpath, ropen, last>>

writerVars == <<wr, wpath, wopen, items, at>>
readerVars == <<delivered, rd, rpath, ropen, last>>

HeaderSize == 4

\* writeBytes<4>(uint32_t) of a number below 256, little endian.
Header(n) == << n, 0, 0, 0 >>
\* readBytes<4>(uint32_t&) of what such a header or zeros hold.
FromHeader(b) == b[1]

Init == /\ phase = "writing"
        /\ wr = NewWriter(<< >>) /\ wpath = <<1>> /\ wopen = << >>
        /\ items = << >> /\ at = << >>
        /\ delivered = 0 /\ rd = NewReader(0) /\ rpath = <<1>> /\ ropen = << >>
        /\ last = [ path |-> << >>, got |-> << >> ]

Sibling(path) == Append(Front(path), Last(path) + 1)
Child(path)   == Append(path, 1)
Depth(path)   == Len(path) - 1

-----------------------------------------------------------------------------
(* The writer.  The container grows by what is needed, any policy of       *)
(* OutputBuffer gives at least that.                                       *)
Put(w, data) == WriteBytes(w, data, w.currOffset + Len(data), 0)
MoveTo(w, p) == SetWritePos(w, p, p, 0)

\* The bytes of values are all different, and no byte of a header.
Fresh(n) == [ i \in 1 .. n |-> 1000 + 10 * Cardinality(DOMAIN items) + i ]

MayWrite(n) == /\ phase = "writing"
               /\ Last(wpath) <= MaxItems
               /\ wr.currOffset + n <= MaxBytes

Recorded(f, value) ==
  [ p \in DOMAIN f \union {wpath} |-> IF p = wpath THEN value ELSE f[p] ]
Record(item) == /\ items' = Recorded(items, item)
                /\ at' = Recorded(at, GetWritePos(wr))

WriteValue(n) ==
  /\ MayWrite(n)
  /\ wr' = Put(wr, Fresh(n))
  /\ Record(Fresh(n))
  /\ wpath' = Sibling(wpath)
  /\ UNCHANGED <<phase, wopen, readerVars>>

\* serialize, up to the call of fnc.
OpenWrite ==
  /\ MayWrite(HeaderSize)
  /\ Depth(wpath) < MaxDepth
  /\ wopen' = Append(wopen, GetWritePos(wr))
  /\ wr' = Put(wr, Header(0))
  /\ Record(<< >>)
  /\ wpath' = Child(wpath)
  /\ UNCHANGED <<phase, readerVars>>

\* The size does not count the header itself.
PatchHeader_Bug(w, startPos) ==
  LET endPos == GetWritePos(w)
  IN  MoveTo(Put(MoveTo(w, startPos), Header(endPos - startPos - HeaderSize)), endPos)

\* serialize, after the call of fnc.
PatchHeader(w, startPos) ==
  LET endPos == GetWritePos(w)
  IN  MoveTo(Put(MoveTo(w, startPos), Header(endPos - startPos)), endPos)

CloseWrite ==
  /\ phase = "writing" /\ wopen # << >>
  /\ wr' = PatchHeader(wr, Last(wopen))
  /\ wopen' = Front(wopen)
  /\ wpath' = Sibling(Front(wpath))
  /\ UNCHANGED <<phase, items, at, readerVars>>

-----------------------------------------------------------------------------
\* The reader is built over the bytes that arrived.
Deliver(n) ==
  /\ phase = "writing" /\ wopen = << >>
  /\ phase' = "reading"
  /\ delivered' = n /\ rd' = NewReader(n)
  /\ UNCHANGED <<writerVars, rpath, ropen, last>>

Delivered == SubSeq(wr.bytes, 1, delivered)

Exists(path) == path \in DOMAIN items

\* The reader's version has an item of this kind here: a value's size, or 0
\* for a session.  Where the writer has none, only a session may go on.
Expects(kind) ==
  /\ phase = "reading"
  /\ Last(rpath) <= MaxItems
  /\ IF Exists(rpath) THEN Len(items[rpath]) = kind ELSE Depth(rpath) > 0

ReadValue(n) ==
  /\ Expects(n)
  /\ rd' = ReadBytes(rd, n)
  /\ last' = [ path |-> rpath, got |-> BytesRead(rd, Delivered, n) ]
  /\ rpath' = Sibling(rpath)
  /\ UNCHANGED <<phase, writerVars, delivered, ropen>>

\* deserialize, up to the call of fnc: its local variables,
Locals(r) == [ startPos   |-> GetReadPos(r),
               size       |-> FromHeader(BytesRead(r, Delivered, HeaderSize)),
               readEndPos |-> GetReadEndPos(r) ]
\* The limit is set relative to the end of the header.
EnterSession_Bug(r) ==
  LET q == ReadBytes(r, HeaderSize)
  IN  SetReadEndPos(q, GetReadPos(q) + Locals(r).size)

\* and the reader, confined to the session.
EnterSession(r) ==
  SetReadEndPos(ReadBytes(r, HeaderSize), Locals(r).startPos + Locals(r).size)

OpenRead ==
  /\ Expects(0)
  /\ Depth(rpath) < MaxDepth
  /\ ropen' = Append(ropen, Locals(rd))
  /\ rd' = EnterSession(rd)
  /\ rpath' = Child(rpath)
  /\ UNCHANGED <<phase, writerVars, delivered, last>>

\* The rest of the session is not skipped.
LeaveSession_Bug(r, s) == SetReadEndPos(r, s.readEndPos)

\* The end position is not restored: the enclosing session is unlimited.
LeaveSession_Unlimited_Bug(r, s) ==
  SetReadEndPos(SetReadPos(r, s.startPos + s.size), 0)

\* deserialize, after the call of fnc.
LeaveSession(r, s) ==
  SetReadEndPos(SetReadPos(r, s.startPos + s.size), s.readEndPos)

CloseRead ==
  /\ phase = "reading" /\ ropen # << >>
  /\ rd' = LeaveSession(rd, Last(ropen))
  /\ ropen' = Front(ropen)
  /\ rpath' = Sibling(Front(rpath))
  /\ UNCHANGED <<phase, writerVars, delivered, last>>

Finish ==
  /\ phase = "reading" /\ ropen = << >> /\ ~Exists(rpath)
  /\ phase' = "done"
  /\ UNCHANGED <<writerVars, readerVars>>

Next == \/ \E n \in ValueSizes : WriteValue(n)
        \/ OpenWrite
        \/ CloseWrite
        \/ \E n \in 0 .. WrittenBytesCount(wr) : Deliver(n)
        \/ \E n \in ValueSizes : ReadValue(n)
        \/ OpenRead
        \/ CloseRead
        \/ Finish

Spec == Init /\ [][Next]_vars

-----------------------------------------------------------------------------
\* The reader has the whole document.
AllArrived == phase # "writing" /\ delivered = WrittenBytesCount(wr)

\* The compatibility the extension promises (ext/growable.h, "new
\* deserialization method will read all 0 for new fields"): what the reader
\* reads at a place of the document is what the writer wrote at that very
\* place, and zeros where the writer had nothing.
ReadsWhatWasWritten ==
  AllArrived =>
    last.got = IF Exists(last.path) THEN items[last.path] ELSE Zeros(Len(last.got))

\* "old deserialization method will ignore additional data by jumping
\* through it": at every item both versions know, whatever was skipped or
\* missing before it, the reader stands at the offset it was written at.
InStep ==
  AllArrived /\ phase = "reading" /\ Exists(rpath) => GetReadPos(rd) = at[rpath]

\* Neither skipped nor missing fields are an error, and a reader that is
\* done has consumed the whole document.
VersionsAreNoError ==
  AllArrived => /\ GetError(rd) = NoError
                /\ phase = "done" => IsCompletedSuccessfully(rd)

\* A reader that got a part of the document only never takes it for the
\* whole: when it is done it reports an error and no success.
TruncationIsNoticed ==
  phase = "done" /\ delivered < WrittenBytesCount(wr)
    => GetError(rd) # NoError /\ ~IsCompletedSuccessfully(rd)

\* And it was given correct values and zeros up to then.
TruncatedReadsAreSafe ==
  \/ last.got = Zeros(Len(last.got))
  \/ Exists(last.path) /\ last.got = items[last.path]

\* While a session is open the reader cannot leave it, nor any session
\* around it: its window lies in the windows it will restore.
WindowsNest ==
  phase = "reading" /\ GetError(rd) = NoError =>
    LET Ends == [ i \in 1 .. Len(ropen) + 1 |->
                    IF i = Len(ropen) + 1 THEN rd.endReadOffset
                    ELSE IF ropen[i].readEndPos = 0 THEN rd.bufferSize
                    ELSE ropen[i].readEndPos ]
    IN  /\ \A i \in 1 .. Len(ropen) : Ends[i + 1] <= Ends[i]
        /\ rd.currOffset <= rd.endReadOffset

=============================================================================
