---------------------------- MODULE Pbzip2Files -----------------------------
(***************************************************************************)
(* What pbzip2 does with the files: the loop of main() over the files, the *)
(* names it publishes for the signal handler, and the handler, which       *)
(* removes an unfinished output.  The threads between opening the output   *)
(* and its last block (module Pbzip2) are the two steps of the writer.     *)
(***************************************************************************)
EXTENDS Naturals

CONSTANTS
  NFiles,      \* the number of files given
  Misnamed,    \* files skipped for their name or header
  Unusable,    \* files skipped later: a directory, empty, no meta data
  Existing,    \* files whose output exists beforehand, without -f
  Catchers     \* the threads a signal may be delivered to: main, other

Files == 1 .. NFiles

FilesAssumption ==
  /\ NFiles \in Nat
  /\ Misnamed \cup Unusable \cup Existing \subseteq Files
  /\ Catchers \subseteq {"main", "other"}

VARIABLES
  pc,           \* of main
  fileLoop,
  keep,         \* the switch -k
  disk,         \* none, user: the user's file, part, whole
  OutFilename,  \* the array: the name it holds
  sigIn,        \* sigInFilename: a file, or 0
  sigOut,       \* whether sigOutFilename points to OutFilename, or is NULL
  writer,       \* none, open, writing, done
  catcher       \* the thread in the handler, or none, and where it is

vars == <<pc, fileLoop, keep, disk, OutFilename, sigIn, sigOut, writer, catcher>>

In(f) == <<"in", f>>
Out(f) == <<"out", f>>
Names == {In(f) : f \in Files} \cup {Out(f) : f \in Files}
Before == [n \in Names |-> IF n[1] = "in" \/ n[2] \in Existing THEN "user" ELSE "none"]

Init ==
  /\ pc = "next" /\ fileLoop = 1
  /\ keep \in BOOLEAN
  /\ disk = Before
  /\ OutFilename = In(1)
  /\ sigIn = 0 /\ sigOut = FALSE
  /\ writer = "none"
  /\ catcher = [thread |-> "none", at |-> "none"]

\* main() does not go on while it is in the handler, nor after exit().
Runs(l) == pc = l /\ catcher.thread # "main" /\ catcher.at # "exit"

Remove(n) == disk' = [disk EXCEPT ![n] = "none"]
Exists(n) == disk[n] # "none"

\* continue
Continue == pc' = "next" /\ fileLoop' = fileLoop + 1

\* strncpy(OutFilename, FileList[fileLoop], 250)
CopyName ==
  /\ Runs("next") /\ fileLoop <= NFiles
  /\ OutFilename' = In(fileLoop)
  /\ pc' = "named"
  /\ UNCHANGED <<fileLoop, keep, disk, sigIn, sigOut, writer, catcher>>

\* The header or the extension is checked, and the extension changed.
CheckName ==
  /\ Runs("named")
  /\ \/ fileLoop \in Misnamed /\ Continue /\ UNCHANGED OutFilename
     \/ /\ fileLoop \notin Misnamed
        /\ OutFilename' = Out(fileLoop)
        /\ pc' = "extended" /\ UNCHANGED fileLoop
  /\ UNCHANGED <<keep, disk, sigIn, sigOut, writer, catcher>>

SetSignalNames ==
  /\ Runs("extended")
  /\ sigIn' = fileLoop /\ sigOut' = TRUE
  /\ pc' = "check"
  /\ UNCHANGED <<fileLoop, keep, disk, OutFilename, writer, catcher>>

\* The file is opened and its kind, size and meta data looked at; an output
\* that exists is not overwritten without -f.  Else the threads are created.
CheckFile ==
  /\ Runs("check")
  /\ \/ /\ fileLoop \in Unusable \/ Exists(Out(fileLoop))
        /\ Continue /\ UNCHANGED writer
     \/ /\ fileLoop \notin Unusable /\ ~Exists(Out(fileLoop))
        /\ pc' = "join" /\ writer' = "open" /\ UNCHANGED fileLoop
  /\ UNCHANGED <<keep, disk, OutFilename, sigIn, sigOut, catcher>>

\* The writer creates the output, or cannot.
OpenOutput ==
  /\ writer = "open" /\ catcher.at # "exit"
  /\ \/ disk' = [disk EXCEPT ![Out(fileLoop)] = "part"] /\ writer' = "writing"
     \/ writer' = "done" /\ UNCHANGED disk
  /\ UNCHANGED <<pc, fileLoop, keep, OutFilename, sigIn, sigOut, catcher>>

\* All blocks are written; to no file, if the output has been removed.
WriteOutput ==
  /\ writer = "writing" /\ catcher.at # "exit"
  /\ disk' = [disk EXCEPT ![Out(fileLoop)] = IF Exists(Out(fileLoop)) THEN "whole" ELSE "none"]
  /\ writer' = "done"
  /\ UNCHANGED <<pc, fileLoop, keep, OutFilename, sigIn, sigOut, catcher>>

\* The threads are joined, unless one of them is in the handler, and the meta
\* data written to an output that is there (one of zero bytes, to which nothing
\* was written, is removed).
JoinThreads ==
  /\ Runs("join") /\ writer = "done" /\ catcher.thread # "other"
  /\ pc' = "finish"
  /\ UNCHANGED <<fileLoop, keep, disk, OutFilename, sigIn, sigOut, writer, catcher>>

ClearSignalNames ==
  /\ Runs("finish")
  /\ sigIn' = 0 /\ sigOut' = FALSE
  /\ pc' = "remove"
  /\ UNCHANGED <<fileLoop, keep, disk, OutFilename, writer, catcher>>

RemoveInput ==
  /\ Runs("remove")
  /\ \/ ~keep /\ Exists(OutFilename) /\ Remove(In(fileLoop))
     \/ (keep \/ ~Exists(OutFilename)) /\ UNCHANGED disk
  /\ Continue
  /\ writer' = "none"
  /\ UNCHANGED <<keep, OutFilename, sigIn, sigOut, catcher>>

\* main() returns.
Return ==
  /\ Runs("next") /\ fileLoop > NFiles
  /\ catcher.at = "none"
  /\ catcher' = [catcher EXCEPT !.at = "exit"]
  /\ UNCHANGED <<pc, fileLoop, keep, disk, OutFilename, sigIn, sigOut, writer>>

----------------------------------------------------------------------------
(* mySignalCatcher *)

\* Other threads than main are there until they are joined.
Signal(t) ==
  /\ catcher.at = "none"
  /\ t = "main" \/ pc = "join"
  /\ catcher' = [thread |-> t, at |-> "stat"]
  /\ UNCHANGED <<pc, fileLoop, keep, disk, OutFilename, sigIn, sigOut, writer>>

\* Without names, and when the input is gone, the handler only exits.
StatInput ==
  /\ catcher.at = "stat"
  /\ catcher' = [catcher EXCEPT !.at = IF sigIn # 0 /\ sigOut /\ Exists(In(sigIn)) THEN "remove" ELSE "exit"]
  /\ UNCHANGED <<pc, fileLoop, keep, disk, OutFilename, sigIn, sigOut, writer>>

\* remove(sigOutFilename); with NULL it fails.
RemoveOutput ==
  /\ catcher.at = "remove"
  /\ IF sigOut THEN Remove(OutFilename) ELSE UNCHANGED disk
  /\ catcher' = [catcher EXCEPT !.at = "exiting"]
  /\ UNCHANGED <<pc, fileLoop, keep, OutFilename, sigIn, sigOut, writer>>

Exit ==
  /\ catcher.at = "exiting"
  /\ catcher' = [catcher EXCEPT !.at = "exit"]
  /\ UNCHANGED <<pc, fileLoop, keep, disk, OutFilename, sigIn, sigOut, writer>>

Exited == catcher.at = "exit" /\ UNCHANGED vars

Next ==
  \/ CopyName \/ CheckName \/ SetSignalNames \/ CheckFile \/ JoinThreads
  \/ ClearSignalNames \/ RemoveInput \/ Return
  \/ OpenOutput \/ WriteOutput
  \/ (\E t \in Catchers : Signal(t)) \/ StatInput \/ RemoveOutput \/ Exit
  \/ Exited

Spec == Init /\ [][Next]_vars

----------------------------------------------------------------------------

\* The comments "only cleanup files if we did something with them" and "only
\* remove input file if output file exists": a file of the user is still
\* there, or it is an input whose output is whole, wherever a signal arrives.
UserFilesKept ==
  \A n \in Names : Before[n] = "user" =>
    \/ disk[n] = "user"
    \/ n[1] = "in" /\ disk[Out(n[2])] = "whole"

\* ChangeLog: "Added signal handling to cleanup partial files".  When the
\* program has ended no output is unfinished.
NoPartialOutput ==
  catcher.at = "exit" => \A f \in Files : disk[Out(f)] # "part"

============================================================================
