-------------------------------- MODULE Pcur --------------------------------
(***************************************************************************)
(* The persistent cursor of btr/btr0pcur.cc (btr_pcur_t) over the leaf     *)
(* level of a B-tree that other sessions modify.                           *)
(*                                                                         *)
(* The leaf level is a chain of blocks; block b holds the keys content[b]  *)
(* and covers the keys from its node-pointer key lowkey[b] up to that of   *)
(* the next block (the first block covers everything below).  Every       *)
(* modification of a block increments its modify_clock, as does freeing   *)
(* it.  Inserts (with leaf splits), deletes (with discard of an emptied    *)
(* page), the tree search, try_get, mtr start/commit and the moves inside  *)
(* a page are not under src/ and are modelled from the spec; the cursor    *)
(* operations are translated from btr0pcur.cc.                             *)
(*                                                                         *)
(* One cursor, driven by one thread.  Other sessions' operations are       *)
(* atomic and never touch a block latched by the cursor's mtr (a split     *)
(* also latches the right sibling, a discard both siblings).               *)
(***************************************************************************)
EXTENDS Integers, Sequences, FiniteSets, SequencesExt, FiniteSetsExt

CONSTANTS
    Key,          \* keys, a set of naturals > 0
    Block,        \* buffer blocks that may hold leaf pages
    PageCap,      \* records that fit on a leaf page
    MaxClock,     \* bound on each block's modify_clock
    LeafRelease,  \* whether callers use release_leaf
    NONE

\* Keys are positive; the infimum and supremum records of a page are the
\* numbers below and above every key, so that records compare in order.
INF == 0
SUP == Max(Key) + 1
Rec == Key \cup {INF, SUP}
PosState == {"UNSET", "IS_POSITIONED", "WAS_POSITIONED",
             "IS_POSITIONED_OPTIMISTIC"}
RelPos == {"ON", "BEFORE", "AFTER",
           "BEFORE_FIRST_IN_TREE", "AFTER_LAST_IN_TREE"}
LatchMode == {"NO_LATCHES", "SEARCH_LEAF", "SEARCH_PREV"}
Cursor == [pos_state : PosState, block : Block, rec : Rec,
           latch_mode : LatchMode, old_stored : BOOLEAN, rel_pos : RelPos,
           old_rec : Key, block_when_stored : Block, modify_clock : Nat]

VARIABLES
    chain, content, lowkey, clock,  \* the leaf level and modify_clocks
    cur,          \* the btr_pcur_t
    ret,          \* the value the last restore_position returned
    mtr_active,   \* the cursor thread's mtr is started
    clatch,       \* blocks latched by that mtr
    pc,           \* "idle", "committed", "restart", "mb_restore", "halted"
    mb_latch      \* move_backward_from_page's saved latch_mode

treeVars == <<chain, content, lowkey, clock>>
thrVars == <<ret, mtr_active, clatch, pc, mb_latch>>
vars == <<treeVars, cur, thrVars>>

-----------------------------------------------------------------------------
(* The leaf level                                                          *)

InChain(b) == b \in ToSet(chain)
Pos(b) == SelectInSeq(chain, LAMBDA x : x = b)
NextBlock(b) ==
    IF InChain(b) /\ Pos(b) < Len(chain) THEN chain[Pos(b) + 1] ELSE NONE
PrevBlock(b) == IF InChain(b) /\ Pos(b) > 1 THEN chain[Pos(b) - 1] ELSE NONE
Upper(b) == IF NextBlock(b) = NONE THEN Max(Key) + 1 ELSE lowkey[NextBlock(b)]
IndexKeys == UNION {content[b] : b \in ToSet(chain)}

\* The block holding (or that would hold) key k.
Covering(k) == CHOOSE b \in ToSet(chain) : lowkey[b] <= k /\ k < Upper(b)

\* btr_cur_search_to_nth_level: the descent compares with the node
\* pointers in mode L for GE and L, and LE for G and LE (the first node
\* pointer compares smaller than everything); on the leaf page the cursor
\* goes to the last record below (L, LE) or the first above (G, GE).
LeafFor(k, mode) ==
    LET ok(b) == b = chain[1] \/ IF mode \in {"L", "GE"} THEN lowkey[b] < k
                                                      ELSE lowkey[b] <= k
    IN  chain[SelectLastInSeq(chain, ok)]

PageSearch(S, k, mode) ==
    LET lo == {j \in S : j < k \/ (mode = "LE" /\ j = k)}
        hi == {j \in S : j > k \/ (mode = "GE" /\ j = k)}
    IN  IF mode \in {"L", "LE"} THEN IF lo = {} THEN INF ELSE Max(lo)
                                ELSE IF hi = {} THEN SUP ELSE Min(hi)

btr_cur_search(k, mode) ==
    LET b == LeafFor(k, mode) IN [block |-> b, rec |-> PageSearch(content[b], k, mode)]

\* The point of the key line (see PcurAbstract) that a cursor position
\* stands for.
Point(b, r) ==
    CASE r = INF -> 2 * lowkey[b] - 1
      [] r = SUP -> 2 * Upper(b) - 1
      [] OTHER   -> 2 * r

-----------------------------------------------------------------------------
(* Other sessions (btr0cur, spec): one insert or delete, with a split or a *)
(* page discard, as one step.                                              *)

Bump(c, bs) == [b \in Block |-> IF b \in bs THEN c[b] + 1 ELSE c[b]]

Insert(k) ==
    LET b == Covering(k)
        S == content[b] \cup {k}
    IN
    /\ k \notin IndexKeys
    /\ b \notin clatch
    /\ clock[b] < MaxClock
    /\ \/ /\ Cardinality(S) <= PageCap
          /\ content' = [content EXCEPT ![b] = S]
          /\ clock' = Bump(clock, {b})
          /\ UNCHANGED <<chain, lowkey>>
       \/ /\ Cardinality(S) > PageCap
          /\ NextBlock(b) \notin clatch
          \* the split point: the middle or the last-insert hint
          /\ \E n \in Block \ ToSet(chain), s \in S \ {Min(S)} :
               /\ clock[n] < MaxClock
               /\ content' = [content EXCEPT ![b] = {j \in S : j < s},
                                             ![n] = {j \in S : j >= s}]
               /\ lowkey' = [lowkey EXCEPT ![n] = s]
               /\ chain' = InsertAt(chain, Pos(b) + 1, n)
               /\ clock' = Bump(clock, {b, n})
    /\ UNCHANGED <<cur, thrVars>>

Delete(k) ==
    LET b == Covering(k)
        S == content[b] \ {k}
    IN
    /\ k \in IndexKeys
    /\ b \notin clatch
    /\ clock[b] < MaxClock
    /\ content' = [content EXCEPT ![b] = S]
    /\ clock' = Bump(clock, {b})
    /\ \/ /\ S # {} \/ Len(chain) = 1
          /\ UNCHANGED <<chain, lowkey>>
       \/ /\ S = {} /\ Len(chain) > 1
          /\ {PrevBlock(b), NextBlock(b)} \cap clatch = {}
          /\ chain' = RemoveAt(chain, Pos(b))
          /\ lowkey' = IF Pos(b) = 1 THEN [lowkey EXCEPT ![chain[2]] = 0]
                                     ELSE lowkey
    /\ UNCHANGED <<cur, thrVars>>

-----------------------------------------------------------------------------
(* The cursor thread's mtr (spec: mtr_start, mtr_commit).  After a commit  *)
(* the caller must restore or reopen the cursor before using it.           *)

MtrStart ==
    /\ pc = "committed"
    /\ mtr_active' = TRUE
    /\ pc' = "restart"
    /\ UNCHANGED <<treeVars, cur, ret, clatch, mb_latch>>

MtrCommit ==
    /\ pc = "idle"
    /\ mtr_active' = FALSE
    /\ clatch' = {}
    /\ ret' = NONE
    /\ pc' = "committed"
    /\ UNCHANGED <<treeVars, cur, mb_latch>>

-----------------------------------------------------------------------------
(* btr_pcur_t                                                              *)

Positioned(c) == c.pos_state \in {"IS_POSITIONED", "IS_POSITIONED_OPTIMISTIC"}

\* store_position: an empty page (only in an empty tree) saves a
\* sentinel and no modify_clock; on the supremum the record before it is
\* saved (AFTER), on the infimum the one after it (BEFORE).
StoreFrom(c) ==
    LET S == content[c.block] IN
    IF S = {}
    THEN [c EXCEPT !.old_stored = TRUE,
                   !.rel_pos = IF c.rec = SUP THEN "AFTER_LAST_IN_TREE"
                                              ELSE "BEFORE_FIRST_IN_TREE"]
    ELSE [c EXCEPT !.old_stored = TRUE,
                   !.rel_pos = CASE c.rec = SUP -> "AFTER"
                                 [] c.rec = INF -> "BEFORE"
                                 [] OTHER       -> "ON",
                   !.old_rec = CASE c.rec = SUP -> Max(S)
                                 [] c.rec = INF -> Min(S)
                                 [] OTHER       -> c.rec,
                   !.block_when_stored = c.block,
                   !.modify_clock = clock[c.block]]

\* store_position; ut_a(m_latch_mode != BTR_NO_LATCHES) halts the server.
store_position ==
    /\ pc = "idle"
    /\ cur.pos_state = "IS_POSITIONED"
    /\ \/ /\ cur.latch_mode # "NO_LATCHES"
          /\ cur' = StoreFrom(cur)
          /\ ret' = NONE
          /\ UNCHANGED pc
       \/ /\ cur.latch_mode = "NO_LATCHES"
          /\ pc' = "halted"
          /\ UNCHANGED <<cur, ret>>
    /\ UNCHANGED <<treeVars, mtr_active, clatch, mb_latch>>

\* Mutant: AFTER searches with PAGE_CUR_GE, landing on the stored record.
SearchMode_AfterGE(rel) ==
    CASE rel = "ON" -> "LE" [] rel = "AFTER" -> "GE" [] OTHER -> "L"

\* The search mode of the pessimistic restore.
SearchMode(rel) ==
    CASE rel = "ON" -> "LE" [] rel = "AFTER" -> "G" [] OTHER -> "L"

\* Buf_pool::try_get (spec): the guessed block still holds the page and
\* its modify_clock is unchanged.
try_get(c) ==
    InChain(c.block_when_stored) /\ clock[c.block_when_stored] = c.modify_clock

\* restore_position, guard of the caller: a position was stored and the
\* cursor was positioned.
CanRestore(c) ==
    /\ c.old_stored
    /\ c.pos_state \in {"WAS_POSITIONED", "IS_POSITIONED"}

\* A whole-tree sentinel: open at the index side, remember the block.
restore_position_side(lm) ==
    LET b == IF cur.rel_pos = "BEFORE_FIRST_IN_TREE" THEN chain[1]
                                                     ELSE Last(chain)
    IN
    /\ pc \in {"idle", "restart"}
    /\ CanRestore(cur)
    /\ cur.rel_pos \in {"BEFORE_FIRST_IN_TREE", "AFTER_LAST_IN_TREE"}
    /\ cur' = [cur EXCEPT !.block = b, !.block_when_stored = b,
                          !.rec = IF cur.rel_pos = "BEFORE_FIRST_IN_TREE"
                                  THEN INF ELSE SUP]
    /\ clatch' = clatch \cup {b}
    /\ ret' = FALSE
    /\ pc' = "idle"
    /\ UNCHANGED <<treeVars, mtr_active, mb_latch>>

\* The optimistic restoration of a leaf latch mode: the page cursor is
\* where it was stored.  Only ON sets the latch mode and returns TRUE.
restore_position_optimistic(lm) ==
    /\ pc \in {"idle", "restart"}
    /\ CanRestore(cur)
    /\ cur.rel_pos \in {"ON", "BEFORE", "AFTER"}
    /\ lm = "SEARCH_LEAF"
    /\ try_get(cur)
    /\ cur' = [cur EXCEPT
                 !.pos_state = IF cur.rel_pos # "ON" /\ cur.rec \in Key
                               THEN "IS_POSITIONED_OPTIMISTIC"
                               ELSE "IS_POSITIONED",
                 !.latch_mode = IF cur.rel_pos = "ON" THEN lm ELSE @]
    /\ clatch' = clatch \cup {cur.block_when_stored}
    /\ ret' = (cur.rel_pos = "ON")
    /\ pc' = "idle"
    /\ UNCHANGED <<treeVars, mtr_active, mb_latch>>

\* Mutant: TRUE for every ON restore, without comparing the record found.
RestoreBySearch_NoCompare(c, lm) ==
    LET s == btr_cur_search(c.old_rec, SearchMode(c.rel_pos))
        o == [c EXCEPT !.pos_state = "IS_POSITIONED", !.latch_mode = lm,
                       !.block = s.block, !.rec = s.rec]
    IN  [cur |-> [o EXCEPT !.block_when_stored = s.block,
                           !.modify_clock = clock[s.block]],
         latched |-> {s.block},
         ret |-> c.rel_pos = "ON"]

\* Open the cursor anew (open_with_no_init) on the stored record prefix;
\* TRUE when ON finds the same record, which keeps old_rec and takes the
\* new block and modify_clock; otherwise the position is stored again.
\* SEARCH_PREV also latches the left sibling (left_block).
RestoreBySearch(c, lm) ==
    LET s == btr_cur_search(c.old_rec, SearchMode(c.rel_pos))
        o == [c EXCEPT !.pos_state = "IS_POSITIONED", !.latch_mode = lm,
                       !.block = s.block, !.rec = s.rec]
        same == c.rel_pos = "ON" /\ s.rec = c.old_rec
    IN  [cur |-> IF same THEN [o EXCEPT !.block_when_stored = s.block,
                                        !.modify_clock = clock[s.block]]
                         ELSE StoreFrom(o),
         latched |-> {s.block} \cup
                       IF lm = "SEARCH_PREV" /\ PrevBlock(s.block) # NONE
                       THEN {PrevBlock(s.block)} ELSE {},
         ret |-> same]

restore_position_search(lm) ==
    LET r == RestoreBySearch(cur, lm) IN
    /\ pc \in {"idle", "restart"}
    /\ CanRestore(cur)
    /\ cur.rel_pos \in {"ON", "BEFORE", "AFTER"}
    /\ ~(lm = "SEARCH_LEAF" /\ try_get(cur))
    /\ cur' = r.cur
    /\ clatch' = clatch \cup r.latched
    /\ ret' = r.ret
    /\ pc' = "idle"
    /\ UNCHANGED <<treeVars, mtr_active, mb_latch>>

\* release_leaf: btr_leaf_page_release with the cursor's latch mode.
release_leaf ==
    /\ LeafRelease
    /\ pc = "idle"
    /\ cur.pos_state = "IS_POSITIONED"
    /\ clatch' = IF cur.latch_mode = "NO_LATCHES" THEN clatch
                                                 ELSE clatch \ {cur.block}
    /\ cur' = [cur EXCEPT !.latch_mode = "NO_LATCHES",
                          !.pos_state = "WAS_POSITIONED"]
    /\ ret' = NONE
    /\ UNCHANGED <<treeVars, mtr_active, pc, mb_latch>>

\* Mutant: no check that a next page exists.
move_to_next_page_NoNext ==
    LET nb == NextBlock(cur.block)
        held == IF cur.latch_mode = "NO_LATCHES" THEN {} ELSE {nb}
        gone == IF cur.latch_mode = "NO_LATCHES" THEN {} ELSE {cur.block}
    IN
    /\ pc = "idle"
    /\ cur.pos_state = "IS_POSITIONED"
    /\ cur.rec = SUP
    /\ clatch' = (clatch \cup held) \ gone
    /\ cur' = [cur EXCEPT !.old_stored = FALSE, !.block = nb, !.rec = INF]
    /\ ret' = NONE
    /\ UNCHANGED <<treeVars, mtr_active, pc, mb_latch>>

\* move_to_next_page from the supremum: the next block is fetched with
\* the cursor's latch mode (no latch for NO_LATCHES) before the current
\* one is released with it.  The ut_ad(m_latch_mode != BTR_NO_LATCHES) at
\* btr0pcur.cc:277 (and 307 for move_backward_from_page) is a debug-build
\* check only, so it is not a guard: the release build runs on, and the
\* run pcur_leaf_latch shows that state is reachable.
move_to_next_page ==
    LET nb == NextBlock(cur.block)
        held == IF cur.latch_mode = "NO_LATCHES" THEN {} ELSE {nb}
        gone == IF cur.latch_mode = "NO_LATCHES" THEN {} ELSE {cur.block}
    IN
    /\ pc = "idle"
    /\ cur.pos_state = "IS_POSITIONED"
    /\ cur.rec = SUP
    /\ nb # NONE
    /\ clatch' = (clatch \cup held) \ gone
    /\ cur' = [cur EXCEPT !.old_stored = FALSE, !.block = nb, !.rec = INF]
    /\ ret' = NONE
    /\ UNCHANGED <<treeVars, mtr_active, pc, mb_latch>>

\* move_backward_from_page, up to the restart of the mtr: the position is
\* stored and the mtr committed and started again, so that the previous
\* page can be latched before the current one.  A latch mode other than
\* a leaf mode is ut_error.
move_backward_from_page ==
    /\ pc = "idle"
    /\ cur.pos_state = "IS_POSITIONED"
    /\ cur.rec = INF
    /\ PrevBlock(cur.block) # NONE
    /\ \/ /\ cur.latch_mode = "SEARCH_LEAF"
          /\ cur' = StoreFrom(cur)
          /\ clatch' = {}
          /\ mb_latch' = cur.latch_mode
          /\ pc' = "mb_restore"
       \/ /\ cur.latch_mode # "SEARCH_LEAF"
          /\ pc' = "halted"
          /\ UNCHANGED <<cur, clatch, mb_latch>>
    /\ ret' = NONE
    /\ UNCHANGED <<treeVars, mtr_active>>

\* The rest of move_backward_from_page: restore with BTR_SEARCH_PREV
\* (never optimistic), then keep the cursor on the supremum of the left
\* block if it landed on an infimum, or else release the left block.
move_backward_from_page_restore ==
    LET r == RestoreBySearch(cur, "SEARCH_PREV")
        c == [r.cur EXCEPT !.latch_mode = mb_latch, !.old_stored = FALSE]
        prev == PrevBlock(c.block)
    IN
    /\ pc = "mb_restore"
    /\ \/ /\ prev = NONE
          /\ cur' = c
          /\ clatch' = r.latched
       \/ /\ prev # NONE /\ c.rec = INF
          /\ cur' = [c EXCEPT !.block = prev, !.rec = SUP]
          /\ clatch' = r.latched \ {c.block}
       \/ /\ prev # NONE /\ c.rec # INF
          /\ cur' = c
          /\ clatch' = r.latched \ {prev}
    /\ ret' = r.ret
    /\ pc' = "idle"
    /\ UNCHANGED <<treeVars, mtr_active, mb_latch>>

\* open_on_user_rec(index, tuple, GE or G): open (btr_pcur_t::open, which
\* forgets the stored position) at the start of an mtr, and from the
\* supremum go on to the first user record of the next page.
open_on_user_rec(k, mode) ==
    LET s == btr_cur_search(k, mode)
        nb == NextBlock(s.block)
        b == IF s.rec = SUP /\ nb # NONE THEN nb ELSE s.block
    IN
    /\ pc = "restart"
    /\ cur' = [cur EXCEPT !.pos_state = "IS_POSITIONED",
                          !.latch_mode = "SEARCH_LEAF",
                          !.old_stored = FALSE, !.block = b,
                          !.rec = IF b = s.block THEN s.rec ELSE Min(content[b])]
    /\ clatch' = {b}
    /\ ret' = NONE
    /\ pc' = "idle"
    /\ UNCHANGED <<treeVars, mtr_active, mb_latch>>

\* The moves inside a page (btr_pcur_move_to_next_on_page and
\* move_to_prev_on_page, spec), which forget the stored position.
MoveOnPage(dir) ==
    LET recs == content[cur.block] \cup {INF, SUP}
        ahead == {r \in recs : IF dir = "next" THEN r > cur.rec
                                               ELSE r < cur.rec}
        to == CHOOSE r \in ahead :
                \A q \in ahead : IF dir = "next" THEN r <= q
                                                 ELSE r >= q
    IN
    /\ pc = "idle"
    /\ Positioned(cur)
    /\ ahead # {}
    /\ cur' = [cur EXCEPT !.rec = to, !.old_stored = FALSE,
                          !.pos_state = "IS_POSITIONED"]
    /\ ret' = NONE
    /\ UNCHANGED <<treeVars, mtr_active, clatch, pc, mb_latch>>

-----------------------------------------------------------------------------

\* One leaf page; the cursor is not positioned and no mtr is started.
Init ==
    /\ \E b \in Block, S \in SUBSET Key :
         /\ Cardinality(S) <= PageCap
         /\ chain = <<b>>
         /\ content = [x \in Block |-> IF x = b THEN S ELSE {}]
         /\ cur = [pos_state |-> "UNSET", block |-> b, rec |-> INF,
                   latch_mode |-> "NO_LATCHES", old_stored |-> FALSE,
                   rel_pos |-> "ON", old_rec |-> Min(Key),
                   block_when_stored |-> b, modify_clock |-> 0]
    /\ lowkey = [b \in Block |-> 0]
    /\ clock = [b \in Block |-> 0]
    /\ ret = NONE
    /\ mtr_active = FALSE
    /\ clatch = {}
    /\ pc = "committed"
    /\ mb_latch = "NO_LATCHES"

CursorStep ==
    \/ MtrStart \/ MtrCommit
    \/ \E k \in Key, mode \in {"GE", "G"} : open_on_user_rec(k, mode)
    \/ \E dir \in {"next", "prev"} : MoveOnPage(dir)
    \/ store_position
    \/ restore_position_side("SEARCH_LEAF")
    \/ restore_position_optimistic("SEARCH_LEAF")
    \/ restore_position_search("SEARCH_LEAF")
    \/ release_leaf
    \/ move_to_next_page
    \/ move_backward_from_page
    \/ move_backward_from_page_restore

Next ==
    \/ CursorStep
    \/ \E k \in Key : Insert(k) \/ Delete(k)

Spec == Init /\ [][Next]_vars

-----------------------------------------------------------------------------
(* Properties                                                              *)

TypeOK ==
    /\ chain \in Seq(Block) /\ Len(chain) >= 1
    /\ content \in [Block -> SUBSET Key]
    /\ lowkey \in [Block -> 0..Max(Key)]
    /\ clock \in [Block -> 0..MaxClock]
    /\ cur \in Cursor
    /\ ret \in BOOLEAN \cup {NONE}
    /\ mtr_active \in BOOLEAN
    /\ clatch \subseteq Block
    /\ pc \in {"idle", "committed", "restart", "mb_restore", "halted"}
    /\ mb_latch \in LatchMode

\* The refinement: with other sessions inserting, deleting, splitting and
\* discarding leaf pages between the store and the restore, every step of
\* the cursor is a step of PcurAbstract.  In particular restore_position
\* returns TRUE exactly when the stored record is still in the index, and
\* otherwise leaves the cursor just before (ON, BEFORE) or just after
\* (AFTER) the stored record; move_backward_from_page and
\* move_to_next_page do not skip a record.
Abs == INSTANCE PcurAbstract WITH
         index <- IndexKeys,
         apos <- IF pc = "idle" /\ Positioned(cur)
                 THEN Point(cur.block, cur.rec) ELSE NONE,
         stored <- IF ~cur.old_stored THEN NONE
                   ELSE IF cur.rel_pos \in {"BEFORE_FIRST_IN_TREE",
                                            "AFTER_LAST_IN_TREE"}
                        THEN <<NONE, cur.rel_pos>>
                        ELSE <<cur.old_rec, cur.rel_pos>>

PcurRefinement == Abs!Spec

\* A restore_position that returned TRUE (optimistically through the
\* modify_clock, or after a search) leaves the cursor on the stored record,
\* which is still on the cursor's page, for as long as the caller keeps
\* the mtr.  It fails if some change of a page does not bump its
\* modify_clock, or if the search result is taken without comparing it
\* with the stored record.
RestoreTrueExact ==
    ret = TRUE => /\ InChain(cur.block)
                  /\ cur.rec = cur.old_rec
                  /\ cur.old_rec \in content[cur.block]

\* A positioned cursor in an idle mtr holds a latch on its page, so no
\* other session can change the page under it.  After release_leaf (or a
\* commit that sets BTR_NO_LATCHES) an optimistic restore_position with
\* rel_pos BEFORE/AFTER leaves m_latch_mode at BTR_NO_LATCHES, and
\* move_to_next_page then fetches the next page without a latch.
PositionedCursorLatched ==
    pc = "idle" /\ Positioned(cur) => cur.block \in clatch

====
