----------------------------- MODULE BinLogger -----------------------------
(***************************************************************************)
(* The binary log of one thread (record-log.cpp, logdefs.h): records of    *)
(* one size written to a file through a mapping of its first trunk.  The   *)
(* file is sized, and cut to what is used, by calls of ftruncate inside    *)
(* assertions; the room left is checked by an assertion too.  A call takes *)
(* one record for its first arguments, more for the others and one for its *)
(* return.  Sizes are counted in records.                                  *)
(***************************************************************************)
EXTENDS Integers, Sequences, SequencesExt

CONSTANTS NDEBUG,     \* assertions are compiled out, as in lib/runtime
          TrunkSize,  \* TRUNK_SIZE and LOG_SIZE
          MaxArgs     \* bound on the arguments of a call

MAX_INLINE_ARGS == 2

MAX_EXTRA_ARGS == 3

VARIABLES status,  \* "none", "run", "closed", or how the program ended
          size,    \* the size of the file
          file,    \* the records written to the file
          off,     \* where in the mapping the next record goes
          foff,    \* where in the file the next mapping starts
          open,    \* calls that have not returned, the last one first
          log      \* every call, return and other event logged, in order

vars == <<status, size, file, off, foff, open, log>>

-----------------------------------------------------------------------------
\* Records.  An argument is the number of its place in the call.

Least(a, b) == IF a < b THEN a ELSE b


\* The sum of the constants is 0, so that no narg makes it negative.
NumExtraArgsRecords(narg) ==
  (narg - MAX_INLINE_ARGS + MAX_EXTRA_ARGS - 1) \div MAX_EXTRA_ARGS

Interval(a, b) == [i \in 1 .. (b - a + 1) |-> a + i - 1]

Record(type) ==
  [type |-> type, noReturn |-> FALSE, seq |-> 0, narg |-> 0, args |-> <<>>]

\* The record of the call, and one for every three arguments beyond two.
\* The flags of the latter are not set: a new file holds zeros.
CallRecords(narg, noReturn) ==
  LET extra(s) ==
        [Record("extra") EXCEPT !.seq = s, !.narg = narg,
           !.args = Interval(MAX_INLINE_ARGS + MAX_EXTRA_ARGS * (s - 1) + 1,
                             Least(narg,
                                   MAX_INLINE_ARGS + MAX_EXTRA_ARGS * s))]
  IN  <<[Record("call") EXCEPT !.noReturn = noReturn, !.narg = narg,
           !.args = Interval(1, Least(narg, MAX_INLINE_ARGS))]>>
      \o [s \in 1 .. NumExtraArgsRecords(narg) |-> extra(s)]

ReturnRecord(narg) ==
  [Record("return") EXCEPT !.seq = NumExtraArgsRecords(narg) + 1,
                           !.narg = narg]

-----------------------------------------------------------------------------
Init ==
  /\ status = "none"
  /\ size = 0 /\ file = <<>> /\ off = 0 /\ foff = 0
  /\ open = <<>> /\ log = <<>>

\* BinLogger(): the file is made, sized by the assertion, and mapped.
New ==
  /\ status = "none"
  /\ status' = "run"
  /\ size' = IF NDEBUG THEN size ELSE TrunkSize
  /\ off' = 0 /\ foff' = TrunkSize
  /\ UNCHANGED <<file, open, log>>

\* Records go in one after the other.  Without room in the trunk the
\* assertion ends the program, if it is there; beyond the end of the file,
\* or of the mapping, the store faults.
Write(recs) ==
  LET fits == Least(Len(recs), Least(size, TrunkSize) - off)
      written == IF fits > 0 THEN fits ELSE 0
  IN  /\ off' = off + written
      /\ file' = file \o SubSeq(recs, 1, written)
      /\ status' = IF written = Len(recs) THEN "run"
                   ELSE IF NDEBUG THEN "fault" ELSE "abort"

\* logInsid, logLoad, logStore and logSync take one record each.
Event(type) ==
  /\ status = "run"
  /\ Write(<<Record(type)>>)
  /\ log' = IF status' = "run" THEN Append(log, <<type>>) ELSE log
  /\ UNCHANGED <<size, foff, open>>

\* A call, and whether its function returns.
logCall(narg, noReturn) ==
  /\ status = "run"
  /\ Write(CallRecords(narg, noReturn))
  /\ log' = IF status' = "run" THEN Append(log, <<"call", narg, noReturn>>)
                               ELSE log
  /\ open' = IF noReturn THEN open ELSE <<narg>> \o open
  /\ UNCHANGED <<size, foff>>

\* The return from the innermost call; from one of a function that does not
\* return there is none.
logRet ==
  /\ status = "run" /\ open # <<>>
  /\ Write(<<ReturnRecord(Head(open))>>)
  /\ log' = IF status' = "run" THEN Append(log, <<"return", Head(open)>>)
                               ELSE log
  /\ open' = Tail(open)
  /\ UNCHANGED <<size, foff>>

\* ~BinLogger(): the file is cut to the records it holds.
Delete ==
  /\ status = "run"
  /\ status' = "closed"
  /\ size' = IF NDEBUG THEN size ELSE foff - TrunkSize + off
  /\ off' = 0 /\ foff' = 0
  /\ UNCHANGED <<file, open, log>>

Next ==
  \/ New \/ logRet \/ Delete
  \/ \E type \in {"insid", "sync"} : Event(type)
  \/ \E narg \in 0 .. MaxArgs, noReturn \in BOOLEAN : logCall(narg, noReturn)

Spec == Init /\ [][Next]_vars

-----------------------------------------------------------------------------
\* Reading the log back, as logdefs.h has it.

numArgsInRec(r) ==
  IF r.type = "call" THEN Least(r.narg, MAX_INLINE_ARGS)
  ELSE Least(r.narg - MAX_INLINE_ARGS - (r.seq - 1) * MAX_EXTRA_ARGS,
             MAX_EXTRA_ARGS)

\* The number of records of the instruction a record belongs to.
numRecForInst(r) ==
  IF r.type \in {"call", "extra", "return"}
    THEN 1 + NumExtraArgsRecords(r.narg) + (IF r.noReturn THEN 0 ELSE 1)
    ELSE 1

\* The arguments of the call at place i of the file: its record's and those
\* of the extra records behind it.
ReadArgs(i) ==
  LET nextra == NumExtraArgsRecords(file[i].narg)
      of(r) == SubSeq(r.args, 1, numArgsInRec(r))
  IN  FlattenSeq([k \in 1 .. (nextra + 1) |-> of(file[i + k - 1])])

\* What the records of the file stand for.
RECURSIVE Read(_)
Read(i) ==
  IF i > Len(file) THEN <<>>
  ELSE LET r == file[i]
       IN  CASE r.type = "call" ->
                  <<<<"call", r.narg, r.noReturn>>>>
                  \o Read(i + 1 + NumExtraArgsRecords(r.narg))
             [] r.type = "return" -> <<<<"return", r.narg>>>> \o Read(i + 1)
             [] OTHER -> <<<<r.type>>>> \o Read(i + 1)

Intact == status \in {"run", "closed"}


\* A log that was closed holds its records and nothing else, and while it is
\* open they lie in the file and in the mapping.
FileHoldsRecords ==
  CASE status = "run" -> Len(file) = off /\ off <= Least(size, TrunkSize)
    [] status = "closed" -> size = Len(file)
    [] OTHER -> TRUE

\* A record lands in the file: the constructor asserts that it gave the file
\* the size of the log, and every record that the trunk has room for it.
RecordsLand == status # "fault"

\* Every record of a call, the extra ones too, tells how many records the
\* call has.
RecordsAgree ==
  Intact =>
    \A i, j \in 1 .. Len(file) :
      /\ file[i].type = "call" /\ file[j].type = "extra"
      /\ j \in (i + 1) .. (i + NumExtraArgsRecords(file[i].narg))
      => numRecForInst(file[j]) = numRecForInst(file[i])

=============================================================================
