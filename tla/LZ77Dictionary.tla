---------------------------- MODULE LZ77Dictionary ----------------------------
(***************************************************************************)
(* LZ77Dictionary (compress/lz77_dictionary.cpp): calc() turns a block     *)
(* into literals and (length, distance) pairs.  One dictionary works on    *)
(* the blocks of a section one after the other.                            *)
(*                                                                         *)
(* Positions count from 0, as in the code.  A slot of m_hash holds the     *)
(* hash of a prefix of the block; it is modelled by the position of that   *)
(* prefix's last byte, NoByte for the empty prefix, whose hash is 0.       *)
(***************************************************************************)
EXTENDS Integers, Sequences

CONSTANTS
  Bytes,        \* the alphabet
  Workloads,    \* the sequences of blocks a dictionary is used on
  Levels,       \* rows of LZ77DictionaryConfig
  LZ77DictionarySize,   \* the window: 32768 in the code
  DeflateRepeatLenMax,  \* 258
  ShortBlock,   \* blocks of up to 10 bytes are not searched
  ReportOver    \* progress is reported when it is more than 64 bytes

ASSUME LZ77Assumption ==
  /\ Bytes \subseteq Nat
  /\ Workloads \subseteq Seq(Seq(Bytes))
  /\ Levels \subseteq [chain : Nat, good : Nat, nice : Nat, perfect : Nat]
  /\ LZ77DictionarySize \in Nat \ {0}
  /\ DeflateRepeatLenMax \in Nat \ (0 .. 2)
  /\ ShortBlock \in Nat \ {0, 1}
  /\ ReportOver \in Nat

HashBufferSize == LZ77DictionarySize + DeflateRepeatLenMax

NoByte == -1

VARIABLES
  level,     \* deflate_lz77_level's row
  racing,    \* whether other threads fill get_pow_hash_root's table
  todo,      \* the blocks calc() will be called with
  src,       \* the block
  res,       \* its items
  i,         \* the cursor
  skip,      \* bytes the last match still covers
  m_left,    \* where the window begins
  m_head3b,  \* the list of positions of every 3 bytes, newest first
  m_hash,    \* the ring of prefix hashes
  walk,      \* the search along one of the lists, or NoWalk
  finished_bytes,  \* bytes gone through and not reported
  reported,  \* bytes reported to the progress bar
  running    \* whether calc() runs

vars == <<level, racing, todo, src, res, i, skip, m_left, m_head3b, m_hash,
          walk, finished_bytes, reported, running>>

n == Len(src)

\* src[k]
Byte(k) == src[k + 1]

\* get_hash3b of the 3 bytes from k on: a number of its own for every 3
\* bytes, NoByte standing for those behind the block.
Keys == [1 .. 3 -> Bytes \cup {NoByte}]
hash3b(k) ==
  [j \in 1 .. 3 |-> IF k + j - 1 < n THEN Byte(k + j - 1) ELSE NoByte]

SameBytes(k, l, from, to) == \A j \in from .. to - 1 : Byte(k + j) = Byte(l + j)

NoWalk == [at |-> 0, checked |-> 0, max_check |-> 0, len |-> 0, pos |-> 0]

literal(b) == [type |-> "literal", val |-> b]
length(l) == [type |-> "length", val |-> l]
distance(d) == [type |-> "distance", val |-> d]

-------------------------------------------------------------------------------
(* Hashes.                                                                 *)

\* get_hash(pos, len) is the hash of those bytes: the two slots it reads
\* hold what the position asks for.
Intact(pos, len) ==
  /\ m_hash[(pos + len - 1) % HashBufferSize] = pos + len - 1
  /\ pos > 0 => m_hash[(pos - 1) % HashBufferSize] = pos - 1

\* What comparing get_hash of two runs of len bytes may give.  Hashes of
\* the same bytes are the same, unless a slot was overwritten or the table
\* of powers is not filled yet; in any other case they may happen to be.
HashesAgree(pos, cur, len) ==
  IF /\ Intact(pos, len) /\ Intact(cur, len)
     /\ SameBytes(pos, cur, 0, len)
     /\ ~ racing
  THEN {TRUE} ELSE BOOLEAN

-------------------------------------------------------------------------------
EmptyHeads == [key \in Keys |-> <<>>]
EmptyRing == [s \in 0 .. HashBufferSize - 1 |-> NoByte]

Init ==
  /\ level \in Levels
  /\ racing \in BOOLEAN
  /\ todo \in Workloads
  /\ src = <<>> /\ res = <<>>
  /\ i = 0 /\ skip = 0 /\ m_left = 0
  /\ m_head3b = EmptyHeads /\ m_hash = EmptyRing
  /\ walk = NoWalk
  /\ finished_bytes = 0 /\ reported = 0
  /\ running = FALSE

\* Mutant of calc: the lists of the block before are kept.
calc_no_reset ==
  /\ ~ running
  /\ todo # <<>>
  /\ src' = Head(todo)
  /\ todo' = Tail(todo)
  /\ i' = 0 /\ skip' = 0 /\ m_left' = 0
  /\ walk' = NoWalk
  /\ finished_bytes' = 0 /\ reported' = 0
  /\ UNCHANGED <<level, racing, m_head3b>>
  /\ IF Len(src') <= ShortBlock
     THEN /\ res' = [k \in 1 .. Len(src') |-> literal(src'[k])]
          /\ m_hash' = EmptyRing
          /\ running' = FALSE
     ELSE /\ res' = <<>>
          /\ m_hash' = [s \in 0 .. HashBufferSize - 1 |->
                          IF s < Len(src') /\ s < DeflateRepeatLenMax
                          THEN s ELSE NoByte]
          /\ running' = TRUE

\* calc(): reset(), then a short block is copied, and for a longer one the
\* hashes of its first prefixes are computed.
calc ==
  /\ ~ running
  /\ todo # <<>>
  /\ src' = Head(todo)
  /\ todo' = Tail(todo)
  /\ i' = 0 /\ skip' = 0 /\ m_left' = 0
  /\ m_head3b' = EmptyHeads
  /\ walk' = NoWalk
  /\ finished_bytes' = 0 /\ reported' = 0
  /\ UNCHANGED <<level, racing>>
  /\ IF Len(src') <= ShortBlock
     THEN /\ res' = [k \in 1 .. Len(src') |-> literal(src'[k])]
          /\ m_hash' = EmptyRing
          /\ running' = FALSE
     ELSE /\ res' = <<>>
          /\ m_hash' = [s \in 0 .. HashBufferSize - 1 |->
                          IF s < Len(src') /\ s < DeflateRepeatLenMax
                          THEN s ELSE NoByte]
          /\ running' = TRUE

\* Mutant of left: the window of the round before.
left_late ==
  IF i > LZ77DictionarySize THEN i - LZ77DictionarySize - 1 ELSE m_left

\* The window at cursor i.
left == IF i >= LZ77DictionarySize THEN i - LZ77DictionarySize ELSE m_left

\* Mutant of end_of_round: the ring is fed one position late.
end_of_round_late ==
  LET j == i + DeflateRepeatLenMax + 1 IN
  /\ m_hash' = IF j < n THEN [m_hash EXCEPT ![j % HashBufferSize] = j]
               ELSE m_hash
  /\ m_head3b' = [m_head3b EXCEPT ![hash3b(i)] = <<i>> \o @]
  /\ i' = i + 1
  /\ m_left' = left
  /\ walk' = NoWalk
  /\ UNCHANGED <<level, racing, todo, src, running>>

\* What the loop does at the end of a round, match or not.
end_of_round ==
  LET j == i + DeflateRepeatLenMax IN
  /\ m_hash' = IF j < n THEN [m_hash EXCEPT ![j % HashBufferSize] = j]
               ELSE m_hash
  /\ m_head3b' = [m_head3b EXCEPT ![hash3b(i)] = <<i>> \o @]
  /\ i' = i + 1
  /\ m_left' = left
  /\ walk' = NoWalk
  /\ UNCHANGED <<level, racing, todo, src, running>>

\* Mutant of progress: what was reported is counted again.
progress_kept(bytes) ==
  IF bytes > ReportOver
  THEN reported' = reported + bytes /\ finished_bytes' = bytes
  ELSE finished_bytes' = bytes /\ UNCHANGED reported

progress(bytes) ==
  IF bytes > ReportOver
  THEN reported' = reported + bytes /\ finished_bytes' = 0
  ELSE finished_bytes' = bytes /\ UNCHANGED reported

\* The list of the 3 bytes at the cursor, and its part inside the window.
chain == m_head3b[hash3b(i)]
InWindow(at) == at \in 1 .. Len(chain) /\ chain[at] >= left

AtCursor == running /\ walk = NoWalk /\ i < n

\* Mutant of Skip: the positions inside a match are not entered.
Skip_unlisted ==
  /\ AtCursor
  /\ skip > 0
  /\ skip' = skip - 1
  /\ i' = i + 1
  /\ m_left' = left
  /\ m_hash' = IF i + DeflateRepeatLenMax < n
               THEN [m_hash EXCEPT ![(i + DeflateRepeatLenMax) % HashBufferSize]
                                     = i + DeflateRepeatLenMax]
               ELSE m_hash
  /\ UNCHANGED <<level, racing, todo, src, m_head3b, walk, running>>
  /\ UNCHANGED <<res, finished_bytes, reported>>

Skip ==
  /\ AtCursor
  /\ skip > 0
  /\ skip' = skip - 1
  /\ end_of_round
  /\ UNCHANGED <<res, finished_bytes, reported>>

Literal ==
  /\ AtCursor
  /\ skip = 0
  /\ ~ InWindow(1)
  /\ res' = Append(res, literal(Byte(i)))
  /\ progress(finished_bytes + 1)
  /\ end_of_round
  /\ UNCHANGED skip

StartWalk ==
  /\ AtCursor
  /\ skip = 0
  /\ InWindow(1)
  /\ walk' = [at |-> 1, checked |-> 0, max_check |-> level.chain,
              len |-> 0, pos |-> 0]
  /\ m_left' = left
  /\ UNCHANGED <<level, racing, todo, src, res, i, skip, m_head3b, m_hash,
                 finished_bytes, reported, running>>

\* How far the bytes at pos and at the cursor agree, given that the first
\* len do.
Extended(pos, len) ==
  CHOOSE l \in len .. DeflateRepeatLenMax :
    /\ i + l <= n
    /\ SameBytes(pos, i, len, l)
    /\ \/ l = DeflateRepeatLenMax
       \/ i + l = n
       \/ Byte(pos + l) # Byte(i + l)

\* base_ok: whether the bytes at pos may begin a longer match than len.
Checks(pos, len) ==
  IF len > 3
  THEN {agree /\ SameBytes(pos, i, 3, len) : agree \in HashesAgree(pos, i, len)}
  ELSE {TRUE}

\* Mutant of Candidate: a position that is turned down is not left behind.
Candidate_stays ==
  /\ running
  /\ InWindow(walk.at)
  /\ LET base == IF walk.len = 0 THEN 3 ELSE walk.len
         len == Extended(chain[walk.at], base)
     IN walk' = IF len <= walk.len THEN walk
                ELSE [walk EXCEPT !.at = @ + 1, !.len = len, !.pos = chain[walk.at]]
  /\ UNCHANGED <<level, racing, todo, src, res, i, skip, m_left, m_head3b,
                 m_hash, finished_bytes, reported, running>>

\* One position of the list.  A walk that stops has at = 0.
Candidate ==
  LET pos == chain[walk.at]
      base == IF walk.len = 0 THEN 3 ELSE walk.len
  IN
  /\ running
  /\ InWindow(walk.at)
  /\ \E base_ok \in Checks(pos, base) :
       LET len == IF base_ok THEN Extended(pos, base) ELSE 0
           better == len > walk.len
           max_check ==
             IF ~ better THEN walk.max_check
             ELSE IF len >= level.nice THEN level.chain \div 16
             ELSE IF len >= level.good THEN level.chain \div 4
             ELSE walk.max_check
           found == [walk EXCEPT !.checked = @ + 1, !.max_check = max_check,
                       !.len = IF better THEN len ELSE @,
                       !.pos = IF better THEN pos ELSE @]
       IN walk' = IF \/ better /\ len >= level.perfect
                     \/ found.checked >= max_check
                  THEN [found EXCEPT !.at = 0]
                  ELSE [found EXCEPT !.at = @ + 1]
  /\ UNCHANGED <<level, racing, todo, src, res, i, skip, m_left, m_head3b,
                 m_hash, finished_bytes, reported, running>>

\* Mutant of Match: the byte at the cursor is not counted as covered.
Match_skips_one_more ==
  /\ running
  /\ walk.len > 0
  /\ ~ InWindow(walk.at)
  /\ res' = res \o <<length(walk.len), distance(i - walk.pos)>>
  /\ skip' = walk.len
  /\ progress(finished_bytes + walk.len)
  /\ end_of_round

Match ==
  /\ running
  /\ walk.len > 0
  /\ ~ InWindow(walk.at)
  /\ res' = res \o <<length(walk.len), distance(i - walk.pos)>>
  /\ skip' = walk.len - 1
  /\ progress(finished_bytes + walk.len)
  /\ end_of_round

\* calc() returns; what finished_bytes holds is never reported.
Return ==
  /\ running
  /\ i = n
  /\ running' = FALSE
  /\ UNCHANGED <<level, racing, todo, src, res, i, skip, m_left, m_head3b,
                 m_hash, walk, finished_bytes, reported>>

Round == Skip \/ Literal \/ StartWalk \/ Candidate \/ Match \/ Return

Next == calc \/ Round

Spec == Init /\ [][Next]_vars

\* A call of calc() that has begun goes on.
FairSpec == Spec /\ WF_vars(Round)

-------------------------------------------------------------------------------
(* Properties.                                                             *)

Positions == 0 .. n - 1

\* The variables have their types, a match ends inside the block, and what
\* the lists and the ring name are positions of it.
TypeOK ==
  /\ level \in Levels
  /\ src \in Seq(Bytes)
  /\ i \in 0 .. n /\ i + skip \in 0 .. n
  /\ m_left \in 0 .. i
  /\ \A key \in Keys : m_head3b[key] \in Seq(0 .. i)
  /\ m_hash \in [0 .. HashBufferSize - 1 -> Positions \cup {NoByte}]
  /\ walk.at \in Nat /\ walk.checked \in Nat /\ walk.max_check \in Nat
  /\ walk.len \in {0} \cup 3 .. DeflateRepeatLenMax /\ walk.pos \in Nat
  /\ finished_bytes \in Nat /\ reported \in Nat
  /\ running \in BOOLEAN

\* What an inflater adds to out for a match.  A distance from before the
\* start adds nothing.
Copied(out, len, dist) ==
  IF dist \in 1 .. Len(out)
  THEN [k \in 1 .. len |-> out[Len(out) - dist + 1 + ((k - 1) % dist)]]
  ELSE <<>>

\* What the k-th item makes of what the ones before it gave.
Grown(out, items, k) ==
  IF items[k].type = "literal" THEN Append(out, items[k].val)
  ELSE IF items[k].type = "distance"
       THEN out \o Copied(out, items[k - 1].val, items[k].val)
       ELSE out

\* What an inflater makes of the items.
Inflated(items) ==
  LET f[k \in 0 .. Len(items)] ==
        IF k = 0 THEN <<>> ELSE Grown(f[k - 1], items, k)
  IN f[Len(items)]

\* calc: the items are the block again, after every round as far as the
\* matches reach, and all of it when calc() returns.  Hashes that agree by
\* chance, slots of the ring that were overwritten, lists of an earlier
\* block and matches that overlap the cursor do not change that.
RoundTrip ==
  Inflated(res) = SubSeq(src, 1, IF running THEN i + skip ELSE n)

\* calc: a length is one deflate can code, its distance follows it and
\* stays inside the window.
ItemsLegal ==
  \A k \in 1 .. Len(res) :
    /\ res[k].type = "length" =>
         /\ res[k].val \in 3 .. DeflateRepeatLenMax
         /\ k < Len(res) /\ res[k + 1].type = "distance"
    /\ res[k].type = "distance" =>
         /\ res[k].val \in 1 .. LZ77DictionarySize
         /\ k > 1 /\ res[k - 1].type = "length"

\* calc: the bar is never told of a byte that the items do not hold, and
\* when a searched block is done at most 64 of its bytes were kept from it.
ProgressHonest ==
  /\ running => reported + finished_bytes = i + skip
  /\ ~ running /\ n > ShortBlock => n - reported \in 0 .. ReportOver

\* How many bytes are the same from pos and from the cursor on.
Common(pos) ==
  CHOOSE l \in 0 .. DeflateRepeatLenMax :
    /\ i + l <= n
    /\ SameBytes(pos, i, 0, l)
    /\ \/ l = DeflateRepeatLenMax
       \/ i + l = n
       \/ Byte(pos + l) # Byte(i + l)

InReach == {pos \in left .. i - 1 : Common(pos) >= 3}

\* calc's walk: a byte becomes a literal only if no position of the window
\* begins with the 3 bytes at the cursor, those that matches skipped
\* included.
LiteralsAreNew == [][Literal => InReach = {}]_vars

\* calc's walk: unless the level ended the search, the match is the longest
\* there is and the nearest of that length.  The oldest position of a full
\* window may be missed: get_hash reads the slot before it, which is
\* overwritten by then.
LongestMatch ==
  [][/\ Match
     /\ walk.len < level.perfect
     /\ walk.checked < walk.max_check
     /\ ~ racing
     => \A pos \in InReach :
          i - pos < LZ77DictionarySize =>
            \/ Common(pos) < walk.len
            \/ Common(pos) = walk.len /\ pos <= walk.pos]_vars

\* calc: a call that has begun returns.
CallsReturn == running ~> ~ running
===============================================================================
