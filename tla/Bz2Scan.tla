------------------------------ MODULE Bz2Scan ------------------------------
(***************************************************************************)
(* The first pass of producer_decompress in pbzip2: the compressed file is *)
(* read one buffer at a time, the start of every bzip2 stream is listed,   *)
(* and the file is cut into blocks at these places.  Positions count from  *)
(* zero, as in the code.                                                   *)
(***************************************************************************)
EXTENDS Integers, Sequences, SequencesExt

CONSTANTS
  Bytes,      \* the values of a byte
  Header,     \* bz2Header
  BufSizes,   \* the sizes of the buffer, inSize (100000 in the code)
  MaxSize     \* bound on the size of the file

ScanAssumption ==
  /\ Header \in Seq(Bytes) /\ Len(Header) > 1
  /\ \A s \in BufSizes : s > Len(Header)

VARIABLES
  file,
  inSize,
  currentByte,
  FileData,      \* the buffer, and stale bytes of the read before
  bz2BlockList,  \* sequence of [dataStart, dataSize]
  pc             \* scan, done

vars == <<file, inSize, currentByte, FileData, bz2BlockList, pc>>

len == Len(Header)

\* The n bytes at i.
Slice(buf, i, n) == SubSeq(buf, i + 1, i + n)

\* The places memstr finds in the first size bytes, when it is called again
\* after each of them.
memstr(buf, size) ==
  SetToSortSeq({i \in 0 .. size - 1 : size - 1 - i >= len /\ Slice(buf, i, len) = Header}, <)

\* main() has checked that the file starts with a header, and is longer.
Init ==
  /\ file \in {Header \o s : s \in UNION {[1 .. n -> Bytes] : n \in 1 .. MaxSize - len}}
  /\ inSize \in BufSizes
  /\ currentByte = 0
  /\ FileData = <<>>
  /\ bz2BlockList = <<>>
  /\ pc = "scan"

\* Faulty variant: one byte too few is kept.
CarriedShort == IF currentByte = 0 THEN <<>> ELSE Slice(FileData, inSize - (len - 2), len - 2)

\* What the buffer keeps of the bytes before: the end of the previous buffer.
Carried == IF currentByte = 0 THEN <<>> ELSE Slice(FileData, inSize - (len - 1), len - 1)

\* The buffer after read(), followed by what it held, and the result of read().
Read ==
  LET room == inSize - Len(Carried)
      left == Len(file) - currentByte
      data == Slice(file, currentByte, IF left < room THEN left ELSE room)
      buf == Carried \o data
  IN <<buf \o Slice(FileData, Len(buf), Len(FileData) - Len(buf)), Len(data)>>

\* One round of the loop.
ScanBuffer ==
  /\ pc = "scan" /\ currentByte < Len(file)
  /\ LET buf == Read[1]
         ret == Read[2]
         found == memstr(buf, ret + Len(Carried))
     IN /\ FileData' = buf
        /\ bz2BlockList' = bz2BlockList \o
             [k \in 1 .. Len(found) |->
                [dataStart |-> found[k] + currentByte - Len(Carried), dataSize |-> 0]]
        /\ currentByte' = currentByte + ret
  /\ UNCHANGED <<file, inSize, pc>>

SizeOf(i) ==
  CASE i = Len(bz2BlockList) -> Len(file) - bz2BlockList[i].dataStart
    [] i = 1 /\ i # Len(bz2BlockList) -> bz2BlockList[i + 1].dataStart
    [] OTHER -> bz2BlockList[i + 1].dataStart - bz2BlockList[i].dataStart

\* The sizes of the blocks, once the whole file is scanned.
SizeBlocks ==
  /\ pc = "scan" /\ currentByte >= Len(file)
  /\ bz2BlockList' = [i \in DOMAIN bz2BlockList |-> [bz2BlockList[i] EXCEPT !.dataSize = SizeOf(i)]]
  /\ pc' = "done"
  /\ UNCHANGED <<file, inSize, currentByte, FileData>>

Next == ScanBuffer \/ SizeBlocks

Spec == Init /\ [][Next]_vars

----------------------------------------------------------------------------

Starts == {i \in 0 .. Len(file) - len : Slice(file, i, len) = Header}

\* The places where a buffer ends.
BufferEnds == {e \in 1 .. Len(file) : e = Len(file) \/ \E k \in 0 .. Len(file) : e = inSize + k * (inSize - (len - 1))}

Listed == {bz2BlockList[i].dataStart : i \in DOMAIN bz2BlockList}

\* The scan lists only true starts of streams, and every one, also one that
\* lies across two buffers, unless it ends with the last byte of a buffer.
ListsAcrossBuffers ==
  pc = "done" => Listed = {s \in Starts : s + len \notin BufferEnds}

\* The blocks handed to the consumers, one after the other, are the whole
\* file: no byte is lost or read twice, however the streams lie.
BlocksMakeFile ==
  pc = "done" =>
    FlattenSeq([i \in DOMAIN bz2BlockList |->
                 Slice(file, bz2BlockList[i].dataStart, bz2BlockList[i].dataSize)]) = file

\* What the comment on the carried bytes says: a header is not missed because
\* of where the buffers end.
NoStartMissed ==
  pc = "done" => \A s \in Starts : s + len < Len(file) => s \in Listed

============================================================================
