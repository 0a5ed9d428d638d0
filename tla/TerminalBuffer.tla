--------------------------- MODULE TerminalBuffer ---------------------------
(***************************************************************************)
(* OutputBuffer of src/server/terminal_service.rs: the last output of a    *)
(* terminal, in lines, kept below a size and a number of lines.  read_     *)
(* outputs appends what the shell wrote, in the pieces the reader thread   *)
(* read.  A line is its length and whether it ends with a newline.  The    *)
(* names say Buffer where Terminal has one too: TerminalProofs extends     *)
(* both.                                                                   *)
(***************************************************************************)
EXTENDS Naturals, Sequences, SequencesExt

CONSTANTS
    MaxSize,       \* MAX_OUTPUT_BUFFER_SIZE
    MaxLines,      \* MAX_BUFFER_LINES
    ChunkSize,     \* the longest read of the reader thread
    WordSize,      \* usize wraps at this number in a release build
    MaxOutput      \* bound: bytes the shell writes

ASSUME BufferAssumption ==
    /\ {MaxSize, MaxLines, ChunkSize, WordSize, MaxOutput} \subseteq Nat \ {0}
    /\ ChunkSize < MaxSize /\ MaxSize + MaxOutput < WordSize

VARIABLES
    lines,         \* VecDeque of lines
    total_size,    \* their size, as the code counts it
    incomplete,    \* last_line_incomplete
    hung,          \* the loop of append does not end
    output,        \* bytes appended so far
    uncounted      \* history: bytes that append added to a line and not to total_size

bufferVars == <<lines, total_size, incomplete, hung, output, uncounted>>

Line == [len : 1 .. MaxOutput, nl : BOOLEAN]
Bytes(s) == LET sum[n \in 0 .. Len(s)] == IF n = 0 THEN 0 ELSE sum[n - 1] + s[n].len IN sum[Len(s)]

\* What one read may hold: up to two lines, the last one possibly without its end.
Chunks == {<<[len |-> n, nl |-> e]>> : n \in 1 .. ChunkSize, e \in BOOLEAN} \cup
          {c \in {<<[len |-> m, nl |-> TRUE], [len |-> n, nl |-> e]>> :
                      m \in 1 .. ChunkSize, n \in 1 .. ChunkSize, e \in BOOLEAN} :
              Bytes(c) <= ChunkSize}

BufferInit ==
    /\ lines = <<>> /\ total_size = 0 /\ incomplete = FALSE
    /\ hung = FALSE /\ output = 0 /\ uncounted = 0

\* The last line of s extended by piece l.
Extend(s, l) ==
    [s EXCEPT ![Len(s)] = [len |-> @.len + l.len, nl |-> l.nl]]

\* total_size once the first n of the lines s are removed.
SizeAfter(size, s, n) == (size + WordSize - (Bytes(SubSeq(s, 1, n)) % WordSize)) % WordSize

\* Mutations: one line too many is kept; the size is not reduced.
TrimKeepsLine(s, size) ==
    LET enough == {n \in 0 .. Len(s) : Len(s) - n <= MaxLines + 1 /\ SizeAfter(size, s, n) <= MaxSize} IN
    /\ lines' = SubSeq(s, 1 + (CHOOSE n \in enough : \A m \in enough : n <= m), Len(s))
    /\ total_size' = SizeAfter(size, s, CHOOSE n \in enough : \A m \in enough : n <= m)
    /\ hung' = FALSE
TrimKeepsSize(s, size) ==
    LET enough == {n \in 0 .. Len(s) : Len(s) - n <= MaxLines /\ SizeAfter(size, s, n) <= MaxSize}
        n == IF enough = {} THEN 0 ELSE CHOOSE k \in enough : \A m \in enough : k <= m IN
    /\ lines' = SubSeq(s, 1 + n, Len(s)) /\ total_size' = size /\ hung' = FALSE

\* "Trim old data if buffer is too large": lines are removed from the front until
\* the size and the number of lines fit.  When they never do, the loop goes on with
\* an empty buffer.
Trim(s, size) ==
    LET enough == {n \in 0 .. Len(s) : Len(s) - n <= MaxLines /\ SizeAfter(size, s, n) <= MaxSize}
        n == IF enough = {} THEN Len(s) ELSE CHOOSE k \in enough : \A m \in enough : k <= m IN
    /\ lines' = SubSeq(s, n + 1, Len(s))
    /\ total_size' = SizeAfter(size, s, n)
    /\ hung' = (enough = {})

\* append while the last line has no end and the data holds none either: all of it
\* extends the line, and the buffer is not trimmed.
AppendPart(data) ==
    /\ incomplete /\ lines # <<>> /\ Len(data) = 1 /\ ~data[1].nl
    /\ lines' = Extend(lines, data[1])
    /\ total_size' = (total_size + data[1].len) % WordSize
    /\ UNCHANGED <<incomplete, hung, uncounted>>

\* Mutation: the flag is not cleared.
AppendStillIncomplete(data) ==
    /\ incomplete /\ lines # <<>> /\ data[1].nl
    /\ uncounted' = uncounted + data[1].len
    /\ incomplete' = TRUE
    /\ Trim(Extend(lines, data[1]) \o Tail(data), (total_size + Bytes(Tail(data))) % WordSize)

\* append that completes the last line: the part up to the newline is not counted.
AppendEnd(data) ==
    /\ incomplete /\ lines # <<>> /\ data[1].nl
    /\ uncounted' = uncounted + data[1].len
    /\ incomplete' = (Len(data) > 1 /\ ~Last(data).nl)
    /\ Trim(Extend(lines, data[1]) \o Tail(data), (total_size + Bytes(Tail(data))) % WordSize)

\* append after a complete line; a flag left over from a line that was trimmed away
\* stays set.
AppendLines(data) ==
    /\ ~incomplete \/ lines = <<>>
    /\ incomplete' = (incomplete \/ ~Last(data).nl)
    /\ Trim(lines \o data, (total_size + Bytes(data)) % WordSize)
    /\ UNCHANGED uncounted

AppendChunk(data) ==
    /\ ~hung /\ output + Bytes(data) <= MaxOutput
    /\ output' = output + Bytes(data)
    /\ AppendPart(data) \/ AppendEnd(data) \/ AppendLines(data)

BufferNext == \E data \in Chunks : AppendChunk(data)
BufferSpec == BufferInit /\ [][BufferNext]_bufferVars

----------------------------------------------------------------------------
BufferTypeOK ==
    /\ lines \in Seq(Line) /\ Len(lines) <= MaxLines
    /\ total_size \in 0 .. WordSize - 1 /\ incomplete \in BOOLEAN /\ hung \in BOOLEAN
    /\ output \in 0 .. MaxOutput /\ uncounted \in 0 .. MaxOutput

(***************************************************************************)
(* last_line_incomplete tells the truth: it is set exactly when the last   *)
(* line lacks its newline, and every other line has one.  Chunks cut lines *)
(* anywhere, and trimming may remove the line the flag is about.           *)
(***************************************************************************)
LinesWhole ==
    ~hung => /\ \A i \in 1 .. Len(lines) - 1 : lines[i].nl
             /\ incomplete <=> (lines # <<>> /\ ~Last(lines).nl)

(***************************************************************************)
(* What total_size is worth: the bytes in the buffer less every byte that  *)
(* ever completed a line, also of lines long trimmed away.  The error      *)
(* never shrinks, whatever is trimmed: total_size may fall below zero.     *)
(***************************************************************************)
SizeDrift == total_size = (Bytes(lines) + WordSize - uncounted) % WordSize

(***************************************************************************)
(* "Trim old data if buffer is too large": trimming ends.                  *)
(***************************************************************************)
TrimEnds == ~hung
=============================================================================
