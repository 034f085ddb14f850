------------------------------- MODULE KVCache -------------------------------
(***************************************************************************)
(* The paged attention cache (KVCacheState, src/garuda/src/cache/mod.rs):  *)
(* positions in blocks, blocks in RAM or in files, for one layer of each   *)
(* sequence and of each entry of the prompt cache, on one disk.  A         *)
(* position's key and value are one Value.  Sequences are used as the      *)
(* runtime uses them: prefilled, perhaps copied to the prompt cache,       *)
(* decoded in rounds of which the end may be cut off, and dropped, at      *)
(* once after an error.                                                    *)
(***************************************************************************)
EXTENDS Integers, Sequences, FiniteSets, Functions

CONSTANTS
    Session,      \* the sequences, each its own seq_id
    Entry,        \* places in the prompt cache
    Value,        \* what a position holds
    Writes(_),    \* the values a session's tokens may give
    BlockSize,    \* KVCacheState::block_size
    MaxPositions, \* KVCacheState::max_positions
    MaxResident,  \* KVCacheState::max_resident_blocks
    Windows,      \* the sliding windows to consider; MaxPositions is none
    Lookahead,    \* most positions of a round that may be cut off
    Flaky,        \* the owners whose file operations may fail
    None

Owner == Session \cup Entry
Block == 0..((MaxPositions - 1) \div BlockSize)

ASSUME KVCacheAssumption ==
    /\ IsFiniteSet(Owner) /\ Session \cap Entry = {}
    /\ BlockSize \in Nat \ {0} /\ MaxPositions \in Nat \ {0} /\ MaxResident \in Nat \ {0}
    /\ Windows \subseteq Nat \ {0} /\ Lookahead \in Nat
    /\ \A s \in Session : Writes(s) \subseteq Value
    /\ Flaky \subseteq Owner /\ None \notin Value /\ None \notin Seq(Value)

VARIABLES
    status,  \* new, prefill, decode, broken, dropped; an entry is new or kept
    cache,   \* KVCacheState of each owner
    floor,   \* how far back the current round may be cut; 0 is not at all
    disk,    \* the spill files: a function from paths to blocks
    window   \* the engine's sliding window

vars == <<status, cache, floor, disk, window>>

-----------------------------------------------------------------------------
(* Operations of KVCacheState.                                             *)

\* spill_path: the sequence and the block name the file.
Path(id, b) == <<id, b>>

Empty(id) == [id |-> id, len |-> 0, resident |-> << >>, spilled |-> << >>]

HasSpill(c) == DOMAIN c.spilled # {}

Without(f, S) == Restrict(f, DOMAIN f \ S)

\* f with g's values where g is defined.
Over(f, g) == [x \in DOMAIN f \cup DOMAIN g |-> IF x \in DOMAIN g THEN g[x] ELSE f[x]]

\* The n smallest of a set of blocks.
Lowest(S, n) == {b \in S : Cardinality({a \in S : a < b}) < n}

\* A new position goes into the last block, a new one if that is full.
Appended(c, v) ==
    LET idx == c.len \div BlockSize
        old == IF idx \in DOMAIN c.resident THEN c.resident[idx] ELSE <<>>
    IN  [c EXCEPT !.len = @ + 1,
                  !.resident = Over(@, [b \in {idx} |-> Append(old, v)])]

\* enforce_residency: which blocks have to go, but never the one being written.
Victims(c, current) ==
    Lowest(DOMAIN c.resident \ {current}, Cardinality(DOMAIN c.resident) - MaxResident)

\* The blocks V are written and given up; what is written names the block's file.
Spilled(c, V) == [c EXCEPT !.resident = Without(@, V),
                           !.spilled = Over(@, [b \in V |-> Path(c.id, b)])]
\* A file that exists is not written again.
BugWritten(c, V) == Over([p \in {Path(c.id, b) : b \in V} |-> c.resident[p[2]]], disk)
Written(c, V) == Over(disk, [p \in {Path(c.id, b) : b \in V} |-> c.resident[p[2]]])

\* The blocks R are read back; their files stay where they are.
Reloaded(c, R, d) == [c EXCEPT !.resident = Over(@, [b \in R |-> d[c.spilled[b]]]),
                               !.spilled = Without(@, R)]

\* The window forgotten, and blocks the window only partly covers forgotten.
BugReach(c) == 0..(c.len - 1)
BugNeeded(c) == {b \in DOMAIN c.spilled : b * BlockSize >= c.len - window}

\* attention_start and ensure_resident: the blocks a pass has to read back.
Reach(c) == (IF c.len < window THEN 0 ELSE c.len - window)..(c.len - 1)
Needed(c) == {b \in DOMAIN c.spilled : \E p \in Reach(c) : p \div BlockSize = b}

\* slice_at: the value of a position, if it is in RAM.
InRam(c, p) == /\ p \div BlockSize \in DOMAIN c.resident
               /\ p % BlockSize < Len(c.resident[p \div BlockSize])

\* truncate: whole blocks past the cut go, the block it lands in keeps what precedes it.
BugKept(len, b) == b <= len \div BlockSize     \* and an empty block too
Kept(len, b) == b < len \div BlockSize \/ (b = len \div BlockSize /\ len % BlockSize > 0)
Refused(c, len) == len % BlockSize > 0 /\ len \div BlockSize \in DOMAIN c.spilled
Cut(c, len) ==
    [c EXCEPT !.len = len,
              !.resident = [b \in {x \in DOMAIN @ : Kept(len, x)} |->
                               IF b = len \div BlockSize
                               THEN SubSeq(@[b], 1, len % BlockSize) ELSE @[b]],
              !.spilled = Restrict(@, {x \in DOMAIN @ : Kept(len, x)})]
Stale(c, len) == {c.spilled[b] : b \in {x \in DOMAIN c.spilled : ~Kept(len, x)}}

\* A file that cannot be removed is left behind, and nobody is told.
Removals(o, files) == IF o \in Flaky THEN SUBSET files ELSE {files}

\* rekey, and one that forgets to.
BugRekeyed(c, id) == c
Rekeyed(c, id) == [c EXCEPT !.id = id]

-----------------------------------------------------------------------------
Init ==
    /\ status = [o \in Owner |-> "new"]
    /\ cache = [o \in Owner |-> Empty(o)]
    /\ floor = [o \in Owner |-> 0]
    /\ disk = << >>
    /\ window \in Windows

\* A request whose prompt is not in the prompt cache.
Begin(s) ==
    /\ status[s] = "new"
    /\ status' = [status EXCEPT ![s] = "prefill"]
    /\ UNCHANGED <<cache, floor, disk, window>>

\* PromptCache::get: a copy of the entry under an identity of its own, which
\* cannot be given to one that shares files.
Hit(s, e) ==
    /\ status[s] = "new" /\ status[e] = "kept"
    /\ IF HasSpill(cache[e])
       THEN /\ status' = [status EXCEPT ![s] = "broken"]
            /\ cache' = [cache EXCEPT ![s] = cache[e]]
       ELSE /\ status' = [status EXCEPT ![s] = "decode"]
            /\ cache' = [cache EXCEPT ![s] = Rekeyed(cache[e], s)]
    /\ UNCHANGED <<floor, disk, window>>

\* The prompt is absorbed: finish_prefill, and perhaps PromptCache::insert.
Finish(s) ==
    /\ status[s] = "prefill"
    /\ \/ /\ status' = [status EXCEPT ![s] = "decode"]
          /\ UNCHANGED cache
       \/ \E e \in Entry :
             /\ status[e] = "new" /\ cache[s].len > 0 /\ ~HasSpill(cache[s])
             /\ status' = [status EXCEPT ![s] = "decode", ![e] = "kept"]
             /\ cache' = [cache EXCEPT ![e] = cache[s]]
    /\ UNCHANGED <<floor, disk, window>>

\* A pass over one position: append, then spilling, then reloading, then reading.  An
\* error in any of them fails the pass.
Position(s) ==
    /\ status[s] \in {"prefill", "decode"} /\ cache[s].len < MaxPositions
    /\ \E v \in Writes(s) :
          LET c == Appended(cache[s], v)
              V == Victims(c, cache[s].len \div BlockSize)
              spilt == Spilled(c, V)
              files == Written(c, V)
              lost == {b \in Needed(spilt) : spilt.spilled[b] \notin DOMAIN files}
              back == Reloaded(spilt, Needed(spilt), files)
          IN  \/ /\ lost = {}
                 /\ cache' = [cache EXCEPT ![s] = back]
                 /\ disk' = files
                 /\ status' = IF \A p \in Reach(back) : InRam(back, p) THEN status
                              ELSE [status EXCEPT ![s] = "broken"]
              \/ /\ s \in Flaky
                 /\ \E k \in 0..(Cardinality(V) - 1) :
                       LET W == Lowest(V, k) IN
                       /\ cache' = [cache EXCEPT ![s] = Spilled(c, W)]
                       /\ disk' = Written(c, W)
                 /\ status' = [status EXCEPT ![s] = "broken"]
              \/ /\ \E k \in 0..(Cardinality(Needed(spilt)) - 1) :
                       LET R == Lowest(Needed(spilt), k)
                           next == Lowest(Needed(spilt), k + 1) \ R IN
                       /\ s \in Flaky \/ next \subseteq lost
                       /\ R \cap lost = {}
                       /\ cache' = [cache EXCEPT ![s] = Reloaded(spilt, R, files)]
                 /\ disk' = files
                 /\ status' = [status EXCEPT ![s] = "broken"]
    \* A decoding pass may begin a round, of which its own position stays.
    /\ \/ status[s] = "decode" /\ floor' = [floor EXCEPT ![s] = cache[s].len + 1]
       \/ /\ status[s] = "prefill" \/ cache[s].len + 1 - floor[s] \in 1..Lookahead
          /\ status[s] = "decode" => floor[s] > 0
          /\ UNCHANGED floor
    /\ UNCHANGED window

\* The end of a round: guesses that came to nothing are cut off.
Truncate(s) ==
    /\ status[s] = "decode" /\ floor[s] > 0
    /\ \E n \in floor[s]..(cache[s].len - 1) :
          IF Refused(cache[s], n)
          THEN /\ status' = [status EXCEPT ![s] = "broken"]
               /\ UNCHANGED <<cache, floor, disk>>
          ELSE /\ cache' = [cache EXCEPT ![s] = Cut(@, n)]
               /\ floor' = [floor EXCEPT ![s] = n]
               /\ \E files \in Removals(s, Stale(cache[s], n)) : disk' = Without(disk, files)
               /\ UNCHANGED status
    /\ UNCHANGED window

\* A sequence ends, or an entry is evicted: purge_spill_files.
Drop(o) ==
    /\ status[o] \notin {"new", "dropped"}
    /\ status' = [status EXCEPT ![o] = IF o \in Entry THEN "new" ELSE "dropped"]
    /\ cache' = [cache EXCEPT ![o] = Empty(o)]
    /\ floor' = [floor EXCEPT ![o] = 0]
    /\ \E files \in Removals(o, Range(cache[o].spilled)) : disk' = Without(disk, files)
    /\ UNCHANGED window

Idle == /\ \A s \in Session : status[s] = "dropped"
        /\ UNCHANGED vars

Next == \/ \E s \in Session : \/ Begin(s) \/ Finish(s) \/ Position(s) \/ Truncate(s)
                              \/ \E e \in Entry : Hit(s, e)
        \/ \E o \in Owner : Drop(o)
        \/ Idle

Spec == Init /\ [][Next]_vars

-----------------------------------------------------------------------------
(* What the cache must guarantee.                                          *)

\* Every variable keeps its type; a part of Whole.
TypeOK ==
    /\ status \in [Owner -> {"new", "prefill", "decode", "broken", "dropped", "kept"}]
    /\ DOMAIN cache = Owner
    /\ \A o \in Owner :
          LET c == cache[o] IN
          /\ c.id \in Owner /\ c.len \in 0..MaxPositions
          /\ DOMAIN c.resident \subseteq Block /\ DOMAIN c.spilled \subseteq Block
          /\ \A b \in DOMAIN c.resident : c.resident[b] \in Seq(Value)
          /\ \A b \in DOMAIN c.spilled : c.spilled[b] = Path(c.id, b)
    /\ floor \in [Owner -> 0..MaxPositions]
    /\ DOMAIN disk \subseteq Owner \X Block
    /\ \A p \in DOMAIN disk : disk[p] \in Seq(Value)
    /\ window \in Windows

\* How many of the first len positions fall into block b.
Filled(len, b) == IF len >= (b + 1) * BlockSize THEN BlockSize
                  ELSE IF len > b * BlockSize THEN len - b * BlockSize ELSE 0

\* Every position is in exactly one place: in a block in RAM, or in a file that is
\* there; the last block, if not full, is in RAM, where the next append will look.
Whole ==
    /\ TypeOK
    /\ \A o \in Owner :
          LET c == cache[o] IN
          /\ DOMAIN c.resident \cap DOMAIN c.spilled = {}
          /\ DOMAIN c.resident \cup DOMAIN c.spilled = {b \in Block : Filled(c.len, b) > 0}
          /\ \A b \in DOMAIN c.resident : Len(c.resident[b]) = Filled(c.len, b)
          /\ \A b \in DOMAIN c.spilled : /\ Filled(c.len, b) = BlockSize
                                         /\ c.spilled[b] \in DOMAIN disk
                                         /\ Len(disk[c.spilled[b]]) = BlockSize

\* "its future spill files cannot collide with the state it was cloned from" (rekey): a
\* file belongs to one owner.
PathsApart ==
    \A o, q \in Owner : o # q => Range(cache[o].spilled) \cap Range(cache[q].spilled) = {}

\* A pass fails only when a file operation fails: what it reads is in RAM by then, and
\* what it cuts is ("resident by construction", truncate), if the window reaches as far
\* back as a round.
BreaksOnlyByFault == \A s \in Session \ Flaky : status[s] # "broken"

\* max_resident_blocks bounds the blocks in RAM, but for those attention reaches.
Bounded ==
    \A s \in Session : status[s] \in {"prefill", "decode"} =>
        Cardinality(DOMAIN cache[s].resident)
            <= MaxResident + (window + BlockSize - 2) \div BlockSize

\* "A sequence that ends -- completed, cancelled, timed out, or dropped because the client
\* hung up -- takes its spill files with it" (SeqState::drop), unless removing fails.
FilesGoWithOwner ==
    \A p \in DOMAIN disk : p[1] \in Flaky \/ \E o \in Owner : /\ status[o] \notin {"new", "dropped"}
                                                              /\ cache[o].id = p[1]

\* What position p of c holds, wherever it is.
Held(c, p) ==
    LET b == p \div BlockSize IN
    IF InRam(c, p) THEN c.resident[b][(p % BlockSize) + 1]
    ELSE IF b \in DOMAIN c.spilled /\ c.spilled[b] \in DOMAIN disk
         THEN disk[c.spilled[b]][(p % BlockSize) + 1]
         ELSE None

Log == INSTANCE PositionLog
       WITH log <- [o \in Owner |->
                       IF status[o] \in {"new", "dropped"} THEN None
                       ELSE [i \in 1..cache[o].len |-> Held(cache[o], i - 1)]]

\* Spilled, read back, cut, rewritten and copied, a cache is still the log of positions.
ImplementsLog == Log!Spec
=============================================================================
