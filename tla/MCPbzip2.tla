----------------------------- MODULE MCPbzip2 ------------------------------
(***************************************************************************)
(* pbzip2 for TLC. A behaviour is one of a single part, which the variable *)
(* part names, and the variables of the others are unused: compress and    *)
(* decompress, the producer, the consumers and the writer on two files,    *)
(* with faults; live and throttle, the same without those that end the     *)
(* program; files, the names a signal handler cleans up; scan, the search  *)
(* for the streams of a file, with a header whose first byte occurs twice  *)
(* so that a match that fails overlaps the next one; test, the switch -t.  *)
(***************************************************************************)
EXTENDS Integers, Sequences

VARIABLES part, pc, file, fifo, waiting, allDone, NumBlocks, NumBufferedBlocks,
          OutputBuffer, OutMutex, MemMutex, blockNum, currBlock, live, input,
          made, output, fileLoop, keep, disk, OutFilename, sigIn, sigOut,
          writer, catcher, inSize, currentByte, FileData, bz2BlockList, files,
          streamNo, errLevel, status

pipeline == <<fifo, waiting, allDone, NumBlocks, NumBufferedBlocks,
              OutputBuffer, OutMutex, MemMutex, blockNum, currBlock, live,
              input, made, output>>
names == <<keep, disk, OutFilename, sigIn, sigOut, writer, catcher>>
buffer == <<inSize, currentByte, FileData, bz2BlockList>>
results == <<files, streamNo, errLevel, status>>

vars == <<part, pc, file, pipeline, fileLoop, names, buffer, results>>

Compress == INSTANCE Pbzip2 WITH
  numCPU <- 2, QUEUESIZE <- 2, Blocks <- <<2, 3>>, Decompress <- FALSE,
  Backlog <- 20, Faults <- {"read", "open", "write"}

Decomp == INSTANCE Pbzip2 WITH
  numCPU <- 2, QUEUESIZE <- 2, Blocks <- <<1, 5>>, Decompress <- TRUE,
  Backlog <- 1, Faults <- {"read"}

Live == INSTANCE Pbzip2 WITH
  numCPU <- 2, QUEUESIZE <- 2, Blocks <- <<1, 3>>, Decompress <- FALSE,
  Backlog <- 20, Faults <- {"open"}

Throttle == INSTANCE Pbzip2 WITH
  numCPU <- 2, QUEUESIZE <- 2, Blocks <- <<1, 5>>, Decompress <- TRUE,
  Backlog <- 1, Faults <- {}

Names == INSTANCE Pbzip2Files WITH
  NFiles <- 4, Misnamed <- {2}, Unusable <- {4}, Existing <- {},
  Catchers <- {"main", "other"}

Scan == INSTANCE Bz2Scan WITH
  Bytes <- {"B", "Z"}, Header <- <<"B", "B", "Z">>, BufSizes <- {4, 5, 6, 7},
  MaxSize <- 10

Test == INSTANCE Bz2Test WITH
  Results <- {"ok", "missing", "io", "data", "magic"}, MaxFiles <- 2,
  MaxStreams <- 2

ASSUME /\ Compress!PbzipAssumption /\ Decomp!PbzipAssumption
       /\ Live!PbzipAssumption /\ Throttle!PbzipAssumption
       /\ Names!FilesAssumption /\ Scan!ScanAssumption /\ Test!TestAssumption

-----------------------------------------------------------------------------
Unused == "unused"

NoPipeline ==
  /\ fifo = Unused /\ waiting = Unused /\ allDone = Unused
  /\ NumBlocks = Unused /\ NumBufferedBlocks = Unused /\ OutputBuffer = Unused
  /\ OutMutex = Unused /\ MemMutex = Unused /\ blockNum = Unused
  /\ currBlock = Unused /\ live = Unused /\ input = Unused /\ made = Unused
  /\ output = Unused

NoNames ==
  /\ keep = Unused /\ disk = Unused /\ OutFilename = Unused /\ sigIn = Unused
  /\ sigOut = Unused /\ writer = Unused /\ catcher = Unused

NoBuffer ==
  /\ inSize = Unused /\ currentByte = Unused /\ FileData = Unused
  /\ bz2BlockList = Unused

NoResults ==
  /\ files = Unused /\ streamNo = Unused /\ errLevel = Unused
  /\ status = Unused

Init ==
  \/ /\ \/ part = "compress" /\ Compress!Init
        \/ part = "decompress" /\ Decomp!Init
        \/ part = "live" /\ Live!Init
        \/ part = "throttle" /\ Throttle!Init
     /\ fileLoop = Unused /\ NoNames /\ NoBuffer /\ NoResults
  \/ /\ part = "files" /\ Names!Init
     /\ file = Unused /\ NoPipeline /\ NoBuffer /\ NoResults
  \/ /\ part = "scan" /\ Scan!Init
     /\ NoPipeline /\ fileLoop = Unused /\ NoNames /\ NoResults
  \/ /\ part = "test" /\ Test!Init
     /\ pc = Unused /\ file = Unused /\ NoPipeline /\ NoNames /\ NoBuffer

PipelineStep ==
  /\ \/ part = "compress" /\ Compress!Next
     \/ part = "decompress" /\ Decomp!Next
     \/ part = "live" /\ Live!Next
     \/ part = "throttle" /\ Throttle!Next
  /\ UNCHANGED <<part, fileLoop, names, buffer, results>>

NamesStep ==
  /\ part = "files" /\ Names!Next
  /\ UNCHANGED <<part, file, pipeline, buffer, results>>

ScanStep ==
  /\ part = "scan" /\ Scan!Next
  /\ UNCHANGED <<part, pipeline, fileLoop, names, results>>

TestStep ==
  /\ part = "test" /\ Test!Next
  /\ UNCHANGED <<part, pc, file, pipeline, names, buffer>>

\* The scan has returned, or the program has ended.
Done ==
  /\ \/ part = "scan" /\ pc = "done"
     \/ part = "test" /\ status # -1
  /\ UNCHANGED vars

Next == PipelineStep \/ NamesStep \/ ScanStep \/ TestStep \/ Done

Others == UNCHANGED <<part, fileLoop, names, buffer, results>>

Main ==
  /\ \/ part = "live" /\ Live!main
     \/ part = "throttle" /\ Throttle!main
  /\ Others

Writer ==
  /\ \/ part = "live" /\ Live!fileWriter
     \/ part = "throttle" /\ Throttle!fileWriter
  /\ Others

Consumer(c) ==
  /\ \/ part = "live" /\ Live!Consumer(c)
     \/ part = "throttle" /\ Throttle!Consumer(c)
  /\ Others

Wakeup(c) ==
  /\ \/ part = "live" /\ Live!wakeup(c)
     \/ part = "throttle" /\ Throttle!wakeup(c)
  /\ Others

\* Every thread runs, the timed waits of the consumers end, and nothing else
\* is assumed: not that a wait of main ends without a signal.
Fairness ==
  /\ WF_vars(Main) /\ WF_vars(Writer)
  /\ \A c \in 1 .. 2 : WF_vars(Consumer(c)) /\ WF_vars(Wakeup(c))

Spec == Init /\ [][Next]_vars /\ Fairness

-----------------------------------------------------------------------------
\* fileWriter: what it has written of a file is always the first of its
\* blocks, in their order, each once, whichever consumer finished first.
OutputInOrder ==
  /\ part = "compress" => Compress!OutputInOrder
  /\ part = "decompress" => Decomp!OutputInOrder

\* What the threads share: the buffer fileWriter writes or deletes is allocated;
\* throttling bounds the blocks that wait for the writer; between two files
\* every buffer has been deleted; and producer_decompress, which takes OutMutex
\* under MemMutex, and fileWriter, which does the opposite, never hold one each.
BuffersAccounted ==
  /\ part = "compress" => Compress!WriterBufferLive
  /\ part = "decompress" =>
       /\ Decomp!WriterBufferLive /\ Decomp!BacklogBounded
       /\ Decomp!NothingLeaks /\ Decomp!NoLockCycle


\* producer_decompress lists only true starts of streams, and every one, also
\* across two buffers, unless it ends with the last byte of a buffer; the
\* blocks, one after the other, are the whole file.
StreamsFound ==
  part = "scan" => Scan!ListsAcrossBuffers /\ Scan!BlocksMakeFile

\* testCompressedData: the exit status tells whether every file is sound, and
\* a damaged file does not keep the ones after it from being tested.
StatusTellsSound == part = "test" => Test!StatusTellsSound

\* main: every file is processed and the program ends, also where a consumer
\* waits when the last block is added (live), and where consumers are throttled.
Terminates ==
  (part \in {"live", "throttle"})
    ~> (part \in {"live", "throttle"} /\ pc[0] = "exit")
=============================================================================
