------------------------------ MODULE EffectLog ------------------------------
(***************************************************************************)
(* The ordered effect records of one dispatch (class EffectLog in          *)
(* effects.ts), as a value and the operators that compute the next value.  *)
(* The handle (module Effects) and the exit step (module Dispatch) hold a  *)
(* log in a variable and assign it with these operators.                   *)
(*                                                                         *)
(* A record keeps what the exit step and the reader of a preview depend    *)
(* on: its kind, its number, and whether it was recorded INSTEAD of being  *)
(* performed.  Details, grants and byte counts are wording and left out.   *)
(***************************************************************************)
EXTENDS Naturals, Sequences

CacheWrite == "cache_write"

\* The kinds a handler can produce; CacheWrite is the framework's own.
EffectKinds == {"proc_mutate", "proc_spawn", "file_write", "net_mutate"}

EffectRecord ==
    [kind     : EffectKinds \cup {CacheWrite},
     seq      : Nat \ {0},
     recorded : BOOLEAN]

\* truncated is the step the preview ended at, or NotTruncated.
NotTruncated == 0

EffectLogType ==
    [records         : Seq(EffectRecord),
     renderedCount   : Nat,
     cachedCount     : Nat,
     truncated       : Nat,
     claimed         : BOOLEAN,
     handlerRendered : BOOLEAN]

NewLog ==
    [records         |-> << >>,
     renderedCount   |-> 0,
     cachedCount     |-> 0,
     truncated       |-> NotTruncated,
     claimed         |-> FALSE,
     handlerRendered |-> FALSE]

-----------------------------------------------------------------------------
\* The two counters are read without appending, so a truncation can name the
\* step the preview would have reached next.
NextSeqOfAnyRecord(log) == Len(log.records) + 1 \* mutated: one counter for all
NextSeq(log) == log.renderedCount + 1
NextCacheSeq(log) == log.cachedCount + 1

\* append(): a CACHE_WRITE never consumes a would-do number.
AppendRecord(log, rec) ==
    IF rec.kind = CacheWrite
    THEN [log EXCEPT !.records = Append(@, rec), !.cachedCount = @ + 1]
    ELSE [log EXCEPT !.records = Append(@, rec), !.renderedCount = @ + 1]

\* mutated: only the dry half remembers to record
RecordDryOnly(log, kind, recorded) ==
    IF recorded
    THEN AppendRecord(log, [kind |-> kind, seq |-> NextSeq(log), recorded |-> TRUE])
    ELSE log
Record(log, kind, recorded) ==
    AppendRecord(log, [kind |-> kind, seq |-> NextSeq(log), recorded |-> recorded])

RecordCacheWrite(log) ==
    AppendRecord(log, [kind |-> CacheWrite, seq |-> NextCacheSeq(log),
                       recorded |-> FALSE])

TruncateAgain(log) == [log EXCEPT !.truncated = NextSeq(log)] \* mutated: = for ??=
\* truncate(): the first extraction decides (truncated ??= err).
Truncate(log) ==
    [log EXCEPT !.truncated = IF @ = NotTruncated THEN NextSeq(log) ELSE @]

Claim(log) == [log EXCEPT !.claimed = TRUE]
ClaimAndRender(log) == [log EXCEPT !.claimed = TRUE, !.handlerRendered = TRUE]

SeamSuppressedByClaim(log) == log.claimed \* mutated: a claim alone silences
\* The seam skips its own rendering only after a claim AND a rendering.
SeamSuppressed(log) == log.claimed /\ log.handlerRendered

-----------------------------------------------------------------------------
IsLine(log, i) == log.records[i].kind # CacheWrite

\* The indices of the records render() writes a line for, and their numbers.
RenderedIndices(log) == {i \in DOMAIN log.records : IsLine(log, i)}
RenderedSteps(log) == {log.records[i].seq : i \in RenderedIndices(log)}
=============================================================================
