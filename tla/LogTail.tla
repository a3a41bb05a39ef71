------------------------------ MODULE LogTail ------------------------------
(***************************************************************************)
(* The two ways in which the last lines of an events.jsonl are read:       *)
(* tailLines of console/tail.js and tailJsonLines of scripts/_status.mjs.  *)
(*                                                                         *)
(* A log is the set of the positions of its newlines, of which there is    *)
(* one at the end of every line.  A line is a pair: the position before    *)
(* its first character, and that of its newline.  A line that was read in  *)
(* part is then one that begins later than it does in the log.             *)
(***************************************************************************)
EXTENDS Integers, FiniteSets, FiniteSetsExt

CONSTANTS
  SMALL_FILE_THRESHOLD,    \* tail.js reads a file of this size whole,
  TAIL_CHUNK_BYTES,        \* ... and else this much of its end
  FirstWindow              \* _status.mjs: its first chunkSize

ASSUME ChunkAssumption ==
  /\ FirstWindow \in Nat \ {0} /\ TAIL_CHUNK_BYTES \in Nat \ {0, 1}
  /\ SMALL_FILE_THRESHOLD \in Nat /\ TAIL_CHUNK_BYTES <= SMALL_FILE_THRESHOLD

(* No line is empty. *)
WellFormed(log) ==
  /\ IsFiniteSet(log) /\ log \subseteq Nat \ {0, 1}
  /\ \A d, e \in log : d < e => d + 1 < e

Size(log) == IF log = {} THEN 0 ELSE Max(log)

(* What is read from a position on: text.split("\n"), without the empty    *)
(* pieces.                                                                 *)
SplitLines(log, start) ==
  LET cuts == {start} \cup {e \in log : e > start}
  IN  {l \in cuts \X cuts : l[1] + 1 < l[2] /\ \A c \in cuts : c <= l[1] \/ l[2] <= c}

Lines(log) == SplitLines(log, 0)

Before(lines, l) == {k \in lines : k[1] < l[1]}
After(lines, l)  == {k \in lines : k[1] > l[1]}

FirstOf(lines, n) == {l \in lines : Cardinality(Before(lines, l)) < n}

(* lines.slice(-n) *)
LastOf(lines, n) == {l \in lines : Cardinality(After(lines, l)) < n}

(* lines.shift() *)
Shifted(lines) == {l \in lines : Before(lines, l) # {}}

(* Mutant: the first line of a chunk is taken for a whole one. *)
tailLinesUncut(log, maxLines) ==
  LET start == IF Size(log) <= SMALL_FILE_THRESHOLD THEN 0 ELSE Size(log) - TAIL_CHUNK_BYTES
  IN  LastOf(SplitLines(log, start), maxLines)

tailLines(log, maxLines) ==
  IF Size(log) <= SMALL_FILE_THRESHOLD THEN LastOf(Lines(log), maxLines)
  ELSE LET lines == SplitLines(log, Size(log) - TAIL_CHUNK_BYTES)
       IN  LastOf(IF Shifted(lines) # {} THEN Shifted(lines) ELSE lines, maxLines)

chunkSize[k \in Nat] == IF k = 0 THEN FirstWindow ELSE 4 * chunkSize[k - 1]

(* The window grows fourfold until it holds more lines than are wanted. *)
tailJsonLines(log, n) ==
  LET lines(k) == SplitLines(log, IF chunkSize[k] < Size(log) THEN Size(log) - chunkSize[k] ELSE 0)
      enough   == {k \in 0..Size(log) : Size(log) <= chunkSize[k] \/ Cardinality(lines(k)) > n}
  IN  LastOf(lines(Min(enough)), n)

-----------------------------------------------------------------------------
(* Both return the last lines of the log, and no line cut short: the first *)
(* always, the second unless the last line alone exceeds its chunk.  It    *)
(* may return fewer than were asked for, but none of those whose bytes,    *)
(* and two more, the chunk holds.                                          *)
TailsMatch(log, n) ==
  LET all   == Lines(log)
      short == tailLines(log, n)
      Held(l) == Size(log) - l[1] + 2 <= TAIL_CHUNK_BYTES \/ Size(log) <= SMALL_FILE_THRESHOLD
  IN  /\ tailJsonLines(log, n) = LastOf(all, n)
      /\ (\A l \in all : l[2] = Size(log) => Size(log) - l[1] <= TAIL_CHUNK_BYTES) =>
           /\ short \subseteq all
           /\ \A l \in short : After(all, l) \subseteq short
           /\ \A l \in LastOf(all, n) : Held(l) => l \in short

=============================================================================
