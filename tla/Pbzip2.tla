------------------------------- MODULE Pbzip2 -------------------------------
(***************************************************************************)
(* The threads of pbzip2, the program the runtime is evaluated on.  For    *)
(* each file main() starts the consumers and the writer, reads the blocks  *)
(* into a queue (producer, producer_decompress), and joins the threads;    *)
(* the consumers compress or decompress the blocks into OutputBuffer,      *)
(* and the writer writes them in order.                                    *)
(*                                                                         *)
(* The sections under fifo->mut and under a single other mutex are one     *)
(* step; OutMutex and MemMutex are kept where one is taken under the       *)
(* other.  allDone, NumBlocks and NumBufferedBlocks are read without a     *)
(* mutex, as in the code.                                                  *)
(***************************************************************************)
EXTENDS BlockQueue, Sequences, FiniteSets, FiniteSetsExt

CONSTANTS
  numCPU,
  Blocks,        \* the number of blocks of each file
  Decompress,    \* the switch -d
  Backlog,       \* the blocks of backlog allowed per consumer, 20 in the code
  Faults         \* what may fail: read, open, write

PbzipAssumption ==
  /\ numCPU \in Nat \ {0} /\ QUEUESIZE = numCPU
  /\ Blocks \in Seq(Nat \ {0})
  /\ Faults \subseteq {"read", "open", "write"}

VARIABLES
  pc,           \* of main, of the writer and of each consumer
  file,         \* fileLoop
  fifo,
  waiting,      \* the threads waiting on notFull and on notEmpty
  allDone, NumBlocks, NumBufferedBlocks,
  OutputBuffer, \* [size, capacity, buf]; buf also covers what lies beyond
  OutMutex, MemMutex,
  blockNum,     \* of main, and of the block each consumer holds
  currBlock,    \* of the writer
  live,         \* the buffers allocated and not yet deleted
  input, made,  \* the files whose input, and whose output, exists
  output        \* the blocks written to each output

sync == <<waiting, OutMutex, MemMutex>>
flags == <<allDone, NumBlocks, NumBufferedBlocks>>
disk == <<input, made, output>>
vars == <<pc, file, fifo, sync, flags, OutputBuffer, blockNum, currBlock, live, disk>>

Files == 1 .. Len(Blocks)
Consumers == 1 .. numCPU
Main == 0
Writer == numCPU + 1
Nobody == -1  \* holds a mutex that is free
NULL == <<>>
Threads == {Main, Writer} \cup Consumers
MaxBlocks == Max({Blocks[f] : f \in Files})

\* A buffer with the input of block b of the current file, and one with the
\* result.
In(b) == <<"in", file, b>>
Out(b) == <<"out", file, b>>

Init ==
  /\ pc = [t \in Threads |-> IF t = Main THEN "resize" ELSE "none"]
  /\ file = 1
  /\ fifo = queueInit
  /\ waiting = [notFull |-> {}, notEmpty |-> {}]
  /\ allDone = FALSE /\ NumBlocks = 0 /\ NumBufferedBlocks = 0
  /\ OutputBuffer = [size |-> 0, capacity |-> 0, buf |-> [i \in 0 .. MaxBlocks |-> NULL]]
  /\ OutMutex = Nobody /\ MemMutex = Nobody
  /\ blockNum = [t \in {Main} \cup Consumers |-> 0]
  /\ currBlock = 0
  /\ live = {}
  /\ input = Files /\ made = {}
  /\ output = [f \in Files |-> <<>>]

Goto(t, l) == pc' = [pc EXCEPT ![t] = l]
From(t, l) == pc[t] = l

\* vector::resize on an empty vector, and the entries set to NULL: an
\* allocation that is large enough is used again, with what it holds beyond.
\* Fresh memory behind a new allocation reads as zero.
resize(v, n) ==
  [size |-> n,
   capacity |-> IF n > v.capacity THEN n ELSE v.capacity,
   buf |-> [i \in DOMAIN v.buf |-> IF i < n \/ n > v.capacity THEN NULL ELSE v.buf[i]]]

\* pthread_cond_signal wakes one of the waiters, if there is one; it also may
\* wake up by itself, and one on notEmpty after a second.
signal(cond) ==
  \/ waiting[cond] = {} /\ UNCHANGED waiting
  \/ \E t \in waiting[cond] : waiting' = [waiting EXCEPT ![cond] = @ \ {t}]

Awake(t) == \A c \in DOMAIN waiting : t \notin waiting[c]

wakeup(t) ==
  /\ ~Awake(t)
  /\ waiting' = [c \in DOMAIN waiting |-> waiting[c] \ {t}]
  /\ UNCHANGED <<pc, file, fifo, OutMutex, MemMutex, flags, OutputBuffer, blockNum, currBlock, live, disk>>

----------------------------------------------------------------------------
(* main *)

\* allDone = 0, and the output buffer; when decompressing the number of blocks
\* is not known yet.
Resize ==
  /\ From(Main, "resize") /\ Goto(Main, "create")
  /\ allDone' = FALSE
  /\ NumBlocks' = IF Decompress THEN 0 ELSE Blocks[file]
  /\ OutputBuffer' = resize(OutputBuffer, NumBlocks')
  /\ NumBufferedBlocks' = IF Decompress THEN 0 ELSE NumBufferedBlocks
  /\ blockNum' = [blockNum EXCEPT ![Main] = 0]
  /\ UNCHANGED <<file, fifo, sync, currBlock, live, disk>>

\* pthread_create, for the consumers in turn and then for the writer.
CreateConsumer(c) ==
  /\ From(Main, "create") /\ From(c, "none")
  /\ \A d \in Consumers : d < c => ~From(d, "none")
  /\ Goto(c, "get")
  /\ UNCHANGED <<file, fifo, sync, flags, OutputBuffer, blockNum, currBlock, live, disk>>

CreateWriter ==
  /\ From(Main, "create") /\ \A c \in Consumers : ~From(c, "none")
  /\ pc' = [pc EXCEPT ![Writer] = "open", ![Main] = IF Decompress THEN "scan" ELSE "read"]
  /\ UNCHANGED <<file, fifo, sync, flags, OutputBuffer, blockNum, currBlock, live, disk>>

\* allDone = 1: after the last block, at the end of a file that has become
\* shorter, and after an error.
Stop == allDone' = TRUE /\ Goto(Main, "joinWriter")

\* producer_decompress has found the blocks: it sets their number under
\* MemMutex, takes OutMutex too, and creates the output buffer.
ScanFile ==
  /\ From(Main, "scan")
  /\ \/ /\ MemMutex = Nobody
        /\ MemMutex' = Main /\ NumBlocks' = Blocks[file] /\ Goto(Main, "resizeOut")
        /\ UNCHANGED allDone
     \/ /\ "read" \in Faults
        /\ Stop /\ UNCHANGED <<MemMutex, NumBlocks>>
  /\ UNCHANGED <<file, fifo, waiting, OutMutex, NumBufferedBlocks, OutputBuffer, blockNum, currBlock, live, disk>>

ResizeOut ==
  /\ From(Main, "resizeOut") /\ Goto(Main, "read")
  /\ OutMutex = Nobody
  /\ OutputBuffer' = resize(OutputBuffer, NumBlocks)
  /\ MemMutex' = Nobody
  /\ UNCHANGED <<file, fifo, waiting, OutMutex, flags, blockNum, currBlock, live, disk>>

\* Faulty variant: the producer ends without setting allDone.
ReadBlockSilent ==
  /\ From(Main, "read")
  /\ IF blockNum[Main] = Blocks[file]
     THEN Goto(Main, "joinWriter") /\ UNCHANGED live
     ELSE MemMutex = Nobody /\ live' = live \cup {In(blockNum[Main])} /\ Goto(Main, "add")
  /\ UNCHANGED <<file, fifo, sync, flags, OutputBuffer, blockNum, currBlock, disk>>

\* The next block is read into a new buffer, which an error or the end of the
\* file deletes again.
ReadBlock ==
  /\ From(Main, "read")
  /\ \/ /\ blockNum[Main] = Blocks[file]
        /\ Stop /\ UNCHANGED live
     \/ /\ blockNum[Main] < Blocks[file] /\ MemMutex = Nobody
        /\ live' = live \cup {In(blockNum[Main])} /\ Goto(Main, "add")
        /\ UNCHANGED allDone
     \/ /\ blockNum[Main] < Blocks[file] /\ MemMutex = Nobody
        /\ "read" \in Faults
        /\ Stop /\ UNCHANGED live
  /\ UNCHANGED <<file, fifo, sync, NumBlocks, NumBufferedBlocks, OutputBuffer, blockNum, currBlock, disk>>

\* while (full) cond_wait, queueAdd, unlock.
AddBlock ==
  /\ From(Main, "add") /\ Awake(Main)
  /\ \/ /\ fifo.full
        /\ waiting' = [waiting EXCEPT !.notFull = {Main}]
        /\ UNCHANGED <<fifo, pc>>
     \/ /\ ~fifo.full
        /\ fifo' = queueAdd(fifo, blockNum[Main]) /\ Goto(Main, "added")
        /\ UNCHANGED waiting
  /\ UNCHANGED <<file, OutMutex, MemMutex, flags, OutputBuffer, blockNum, currBlock, live, disk>>

SignalNotEmpty ==
  /\ From(Main, "added") /\ Goto(Main, "read")
  /\ signal("notEmpty")
  /\ blockNum' = [blockNum EXCEPT ![Main] = @ + 1]
  /\ UNCHANGED <<file, fifo, OutMutex, MemMutex, flags, OutputBuffer, currBlock, live, disk>>

JoinWriter ==
  /\ From(Main, "joinWriter") /\ From(Writer, "done") /\ Goto(Main, "joinConsumers")
  /\ UNCHANGED <<file, fifo, sync, flags, OutputBuffer, blockNum, currBlock, live, disk>>


\* After the last join: an empty output is removed, and the input if there is
\* an output.  The vector is cleared, which keeps its allocation.
FinishFile ==
  /\ From(Main, "joinConsumers") /\ \A c \in Consumers : From(c, "done")
  /\ made' = IF output[file] = <<>> THEN made \ {file} ELSE made
  /\ input' = IF file \in made' THEN input \ {file} ELSE input
  /\ OutputBuffer' = [OutputBuffer EXCEPT !.size = 0]
  /\ fifo' = queueReset(fifo)
  /\ currBlock' = 0
  /\ \/ /\ file < Len(Blocks)
        /\ file' = file + 1
        /\ pc' = [t \in Threads |-> IF t = Main THEN "resize" ELSE "none"]
     \/ /\ file = Len(Blocks)
        /\ Goto(Main, "exit") /\ UNCHANGED file
  /\ UNCHANGED <<sync, flags, blockNum, live, output>>

----------------------------------------------------------------------------
(* consumer, consumer_decompress *)

\* while (empty) { if allDone return; timedwait }, queueDel, unlock.
GetBlock(c) ==
  /\ From(c, "get") /\ Awake(c)
  /\ \/ /\ fifo.empty /\ allDone
        /\ Goto(c, "done")
        /\ UNCHANGED <<fifo, waiting, blockNum>>
     \/ /\ fifo.empty /\ ~allDone
        /\ waiting' = [waiting EXCEPT !.notEmpty = @ \cup {c}]
        /\ UNCHANGED <<fifo, pc, blockNum>>
     \/ /\ ~fifo.empty
        /\ blockNum' = [blockNum EXCEPT ![c] = queueHead(fifo)]
        /\ fifo' = queueDel(fifo)
        /\ Goto(c, "taken")
        /\ UNCHANGED waiting
  /\ UNCHANGED <<file, OutMutex, MemMutex, flags, OutputBuffer, currBlock, live, disk>>

SignalNotFull(c) ==
  /\ From(c, "taken") /\ Goto(c, "work")
  /\ signal("notFull")
  /\ UNCHANGED <<file, fifo, OutMutex, MemMutex, flags, OutputBuffer, blockNum, currBlock, live, disk>>

\* A buffer for the result is allocated, a larger one in place of it when it
\* does not hold the decompressed block.
Work(c) ==
  /\ From(c, "work") /\ Goto(c, "store")
  /\ MemMutex = Nobody
  /\ live' = live \cup {Out(blockNum[c])}
  /\ UNCHANGED <<file, fifo, sync, flags, OutputBuffer, blockNum, currBlock, disk>>

\* Faulty variant: the result goes where the writer looks.
StoreNext(c) ==
  /\ From(c, "store") /\ Goto(c, "free")
  /\ OutMutex = Nobody
  /\ OutputBuffer' = [OutputBuffer EXCEPT !.buf[currBlock] = Out(blockNum[c])]
  /\ UNCHANGED <<file, fifo, sync, flags, blockNum, currBlock, live, disk>>

\* The result is stored under OutMutex.
Store(c) ==
  /\ From(c, "store") /\ Goto(c, "free")
  /\ OutMutex = Nobody
  /\ OutputBuffer' = [OutputBuffer EXCEPT !.buf[blockNum[c]] = Out(blockNum[c])]
  /\ UNCHANGED <<file, fifo, sync, flags, blockNum, currBlock, live, disk>>

\* Only consumer_decompress counts the blocks that wait for the writer.
StoreCounted(c) ==
  /\ From(c, "store") /\ Goto(c, "throttle")
  /\ OutMutex = Nobody
  /\ OutputBuffer' = [OutputBuffer EXCEPT !.buf[blockNum[c]] = Out(blockNum[c])]
  /\ NumBufferedBlocks' = NumBufferedBlocks + 1
  /\ UNCHANGED <<file, fifo, sync, allDone, NumBlocks, blockNum, currBlock, live, disk>>

\* while (NumBufferedBlocks > numCPU * 20) usleep.
Throttle(c) ==
  /\ From(c, "throttle") /\ Goto(c, "free")
  /\ NumBufferedBlocks <= numCPU * Backlog
  /\ UNCHANGED <<file, fifo, sync, flags, OutputBuffer, blockNum, currBlock, live, disk>>

\* Faulty variant: the result is deleted instead.
FreeResult(c) ==
  /\ From(c, "free") /\ Goto(c, "get")
  /\ MemMutex = Nobody
  /\ live' = live \ {Out(blockNum[c])}
  /\ UNCHANGED <<file, fifo, sync, flags, OutputBuffer, blockNum, currBlock, disk>>

FreeInput(c) ==
  /\ From(c, "free") /\ Goto(c, "get")
  /\ MemMutex = Nobody
  /\ live' = live \ {In(blockNum[c])}
  /\ UNCHANGED <<file, fifo, sync, flags, OutputBuffer, blockNum, currBlock, disk>>

consumer(c) == GetBlock(c) \/ SignalNotFull(c) \/ Work(c) \/ Store(c) \/ FreeInput(c)

consumer_decompress(c) ==
  \/ GetBlock(c) \/ SignalNotFull(c) \/ Work(c) \/ StoreCounted(c) \/ Throttle(c) \/ FreeInput(c)

Consumer(c) == IF Decompress THEN consumer_decompress(c) ELSE consumer(c)

----------------------------------------------------------------------------
(* fileWriter *)

OpenOutput ==
  /\ From(Writer, "open")
  /\ \/ /\ made' = made \cup {file} /\ Goto(Writer, "test")
     \/ /\ "open" \in Faults
        /\ Goto(Writer, "done") /\ UNCHANGED made
  /\ UNCHANGED <<file, fifo, sync, flags, OutputBuffer, blockNum, currBlock, live, input, output>>

\* while (currBlock < NumBlocks || allDone == 0), read without a mutex.
TestDone ==
  /\ From(Writer, "test")
  /\ \/ /\ currBlock < NumBlocks \/ ~allDone
        /\ Goto(Writer, "look")
     \/ /\ currBlock >= NumBlocks /\ allDone
        /\ Goto(Writer, "done")
  /\ UNCHANGED <<file, fifo, sync, flags, OutputBuffer, blockNum, currBlock, live, disk>>

\* Is the next block there?  currBlock may be the number of blocks: then the
\* entry behind the last one is read.
Look ==
  /\ From(Writer, "look") /\ OutMutex = Nobody
  /\ \/ /\ OutputBuffer.size = 0 \/ OutputBuffer.buf[currBlock] = NULL
        /\ Goto(Writer, "test")
     \/ /\ OutputBuffer.size # 0 /\ OutputBuffer.buf[currBlock] # NULL
        /\ Goto(Writer, "write")
  /\ UNCHANGED <<file, fifo, sync, flags, OutputBuffer, blockNum, currBlock, live, disk>>

WriteBlock ==
  /\ From(Writer, "write")
  /\ \/ /\ output' = [output EXCEPT ![file] = Append(@, OutputBuffer.buf[currBlock])]
        /\ Goto(Writer, "written")
     \/ /\ "write" \in Faults
        /\ Goto(Writer, "failed") /\ UNCHANGED output
  /\ UNCHANGED <<file, fifo, sync, flags, OutputBuffer, blockNum, currBlock, live, input, made>>

\* OutMutex, and under it MemMutex.
LockOut ==
  /\ OutMutex = Nobody /\ OutMutex' = Writer
  /\ \/ From(Writer, "written") /\ Goto(Writer, "delete")
     \/ From(Writer, "failed") /\ Goto(Writer, "deleteFailed")
  /\ UNCHANGED <<file, fifo, waiting, MemMutex, flags, OutputBuffer, blockNum, currBlock, live, disk>>

\* The entry itself keeps the address of the buffer.
DeleteBlock ==
  /\ MemMutex = Nobody /\ OutMutex' = Nobody
  /\ live' = live \ {OutputBuffer.buf[currBlock]}
  /\ \/ /\ From(Writer, "delete") /\ Goto(Writer, "test")
        /\ currBlock' = currBlock + 1
        /\ NumBufferedBlocks' = NumBufferedBlocks - 1
     \/ /\ From(Writer, "deleteFailed") /\ Goto(Writer, "done")
        /\ UNCHANGED <<currBlock, NumBufferedBlocks>>
  /\ UNCHANGED <<file, fifo, waiting, MemMutex, allDone, NumBlocks, OutputBuffer, blockNum, disk>>

fileWriter == OpenOutput \/ TestDone \/ Look \/ WriteBlock \/ LockOut \/ DeleteBlock

----------------------------------------------------------------------------

producer == ReadBlock \/ AddBlock \/ SignalNotEmpty

producer_decompress == ScanFile \/ ResizeOut \/ ReadBlock \/ AddBlock \/ SignalNotEmpty

main ==
  \/ Resize \/ (\E c \in Consumers : CreateConsumer(c)) \/ CreateWriter
  \/ IF Decompress THEN producer_decompress ELSE producer
  \/ JoinWriter \/ FinishFile

Exited == From(Main, "exit") /\ UNCHANGED vars

Next ==
  \/ main \/ fileWriter \/ (\E c \in Consumers : Consumer(c))
  \/ \E t \in Consumers \cup {Main} : wakeup(t)
  \/ Exited

\* Every thread runs, the timed waits of the consumers end, and nothing else
\* is assumed: not that a wait of main ends without a signal.
Fairness ==
  /\ WF_vars(main) /\ WF_vars(fileWriter)
  /\ \A c \in Consumers : WF_vars(Consumer(c)) /\ WF_vars(wakeup(c))

Spec == Init /\ [][Next]_vars
FairSpec == Spec /\ Fairness

----------------------------------------------------------------------------

Whole(f) == [b \in 1 .. Blocks[f] |-> <<"out", f, b - 1>>]

\* README: "any files created with pbzip2 can be uncompressed by bzip2".  What
\* the writer has written of a file is always the first of its blocks, in
\* their order, each once, whichever consumer finished first.
OutputInOrder ==
  \A f \in Files :
    /\ Len(output[f]) <= Blocks[f]
    /\ output[f] = SubSeq(Whole(f), 1, Len(output[f]))

\* The message "Skipping..." of the writer and of the producers: the input is
\* removed only when all of its blocks are in the output.
InputKept == \A f \in Files \ input : f \in made /\ output[f] = Whole(f)

\* The buffer the writer writes or deletes is allocated: no consumer and no
\* earlier round has deleted it.
WriterBufferLive ==
  pc[Writer] \in {"write", "written", "delete"} => OutputBuffer.buf[currBlock] \in live

\* Between two files, and at the end, every buffer allocated by the producer
\* and the consumers has been deleted.
NothingLeaks == pc[Main] \in {"resize", "exit"} => live = {}

\* The producer takes OutMutex under MemMutex, and the writer MemMutex under
\* OutMutex: they never hold one each.
NoLockCycle == ~(MemMutex = Main /\ OutMutex = Writer)

\* The comment on throttling: the blocks waiting for the writer are at most
\* the allowed backlog and one block for each consumer.
BacklogBounded == NumBufferedBlocks <= numCPU * Backlog + numCPU

\* Every file is processed and the program ends: also the consumers that were
\* waiting when the last block was added, and those that are throttled.
Terminates == <>(pc[Main] = "exit")

============================================================================
