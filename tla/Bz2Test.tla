------------------------------ MODULE Bz2Test -------------------------------
(***************************************************************************)
(* The switch -t of pbzip2: testCompressedData reads the streams of a file *)
(* one after the other with libbz2, testBZ2ErrorHandling turns the error   *)
(* that ends it into a verdict, and main() the verdicts into the status.   *)
(***************************************************************************)
EXTENDS Integers, Sequences, SequencesExt

CONSTANTS
  Results,   \* what libbz2 says of a stream: ok, or an error; missing is a
             \* file that cannot be opened or read
  MaxFiles,  \* bounds on the number of files and of streams
  MaxStreams

TestAssumption ==
  Results \subseteq {"ok", "missing", "config", "io", "data", "mem", "eof", "magic", "other"}

VARIABLES
  files,     \* for each file the results of its streams, until the file ends
  fileLoop,
  streamNo,
  errLevel,
  status     \* the exit status, or -1 while the program runs

vars == <<files, fileLoop, streamNo, errLevel, status>>

SeqsUpTo(S, n) == UNION {[1 .. m -> S] : m \in 1 .. n}

Init ==
  /\ files \in SeqsUpTo(SeqsUpTo(Results, MaxStreams), MaxFiles)
  /\ fileLoop = 1 /\ streamNo = 0
  /\ errLevel = 0 /\ status = -1

Running == status = -1 /\ fileLoop <= Len(files)

\* The verdict on a file: positive ends the program, negative is an error of
\* this file.
Verdict(ret) ==
  /\ fileLoop' = fileLoop + 1 /\ streamNo' = 0
  /\ errLevel' = IF ret < 0 THEN 2 ELSE errLevel
  /\ status' = IF ret > 0 THEN ret ELSE -1
  /\ UNCHANGED files

\* Faulty variant: garbage is ignored in front of the first stream too.
testBZ2ErrorHandlingLax(bzerr, n) ==
  CASE bzerr \in {"config", "other"} -> 3
    [] bzerr \in {"io", "mem"} -> 1
    [] bzerr \in {"data", "eof"} -> -1
    [] bzerr = "magic" -> 0

\* Three is exit(3).  A stream that is none is garbage behind the streams,
\* which is ignored, unless it is the first.
testBZ2ErrorHandling(bzerr, n) ==
  CASE bzerr \in {"config", "other"} -> 3
    [] bzerr \in {"io", "mem"} -> 1
    [] bzerr \in {"data", "eof"} -> -1
    [] bzerr = "magic" -> IF n = 1 THEN -1 ELSE 0

\* One round of the loop of testCompressedData: a stream is read to its end.
ReadStream ==
  /\ Running /\ streamNo < Len(files[fileLoop])
  /\ LET bzerr == files[fileLoop][streamNo + 1]
     IN \/ /\ bzerr = "ok"
           /\ streamNo' = streamNo + 1
           /\ UNCHANGED <<files, fileLoop, errLevel, status>>
        \/ bzerr = "missing" /\ Verdict(-1)
        \/ /\ bzerr \notin {"ok", "missing"}
           /\ Verdict(testBZ2ErrorHandling(bzerr, streamNo + 1))

\* The last stream ended with the file.
EndOfFile ==
  /\ Running /\ streamNo = Len(files[fileLoop])
  /\ Verdict(0)

Return ==
  /\ status = -1 /\ fileLoop > Len(files)
  /\ status' = errLevel
  /\ UNCHANGED <<files, fileLoop, streamNo, errLevel>>

Next == ReadStream \/ EndOfFile \/ Return

Spec == Init /\ [][Next]_vars

----------------------------------------------------------------------------

FirstError(f) == SelectInSeq(f, LAMBDA r : r # "ok")
Sound(f) == FirstError(f) = 0 \/ (FirstError(f) > 1 /\ f[FirstError(f)] = "magic")

\* The status says that the test succeeded exactly when every file consists of
\* sound streams, with or without garbage behind them; a damaged file does not
\* keep the files after it from being tested.
StatusTellsSound ==
  status # -1 =>
    /\ (status = 0) <=> \A i \in DOMAIN files : Sound(files[i])
    /\ status \in {0, 2} => fileLoop > Len(files)

============================================================================
